---- MODULE Spec2Model ----
(***************************************************************************)
(* A model of the sapso TSP metaheuristics (ACO, GA, PSO, SA) and of the   *)
(* tour primitives they share.                                             *)
(*                                                                         *)
(* Conventions.  Rust indexes from 0, TLA+ sequences from 1: every index,  *)
(* city id and range of the source is shifted by one (0..n becomes 1..n).  *)
(* A City is a pair <<x, y>> of integer coordinates.  f64 quantities are   *)
(* kept in fixed point: PSO's unrounded distances in units of 1/FScale,    *)
(* SA's temperature in units of 1/TScale, rates in units of 1/RScale.      *)
(* Every random draw of the source is a nondeterministic choice over the   *)
(* values the draw can return.                                             *)
(***************************************************************************)
EXTENDS Integers, Sequences, FiniteSets, TLC

VARIABLES
    engine,      \* which program runs in this behaviour: "fn", "aco", "ga", "sa", "pso", "hyper"
    tsp,         \* TspLib.cities of the instance (dimension = Len(tsp))
    cfg,         \* the constructor parameters of the engine
    pc,          \* position of the running function
    history,     \* the engine's history: Vec<Route>
    best_route,  \* the engine's best_route: Route
    loc,         \* solver-private state: the locals of solve / optimize, PSO's swarm
    arg,         \* inputs of the function under call; for ACO, GA and SA the
                 \* number of the solve call under way on the engine object
    ret          \* its result

vars == <<engine, tsp, cfg, pc, history, best_route, loc, arg, ret>>

Null == [none |-> TRUE]

-----------------------------------------------------------------------------
(* Bounds and fixed-point scales *)

MaxCoord == 4        \* largest coordinate of a model instance
MaxPairN == 4        \* largest tour length for the two-tour operators
FScale == 100        \* PSO distances are kept in units of 1/FScale
TScale == 1000       \* SA temperatures are kept in units of 1/TScale
MaxMoves == 2        \* moves_per_temp of the SA runs
MaxEpochGap == 3     \* initial_temperature - final_temperature of the SA runs, in 1/TScale
MaxGenerations == 2  \* number_of_generations of the GA runs
MaxIterations == 2   \* iterations of the single-ant ACO run
MaxSwarmIterations == 2  \* max_iterations of the single-particle PSO run
PScale == 1000       \* pheromone is kept in units of 1/PScale
MaxTrials == 2       \* largest num_trials of optimize_hyperparameters

MaxD2 == 2 * MaxCoord * MaxCoord

Min(a, b) == IF a < b THEN a ELSE b
Max(a, b) == IF a < b THEN b ELSE a

\* f64::sqrt followed by f64::round, on an integer argument
RoundSqrt == [d \in 0..MaxD2 |-> CHOOSE r \in 0..(d + 1) :
                 /\ 4 * d < (2 * r + 1) * (2 * r + 1)
                 /\ (r = 0 \/ (2 * r - 1) * (2 * r - 1) <= 4 * d)]

\* f64::sqrt without rounding, in units of 1/FScale
FixSqrt == [d \in 0..MaxD2 |-> CHOOSE r \in 0..(FScale * (d + 1)) :
               /\ r * r <= d * FScale * FScale
               /\ d * FScale * FScale < (r + 1) * (r + 1)]

Range(s) == {s[i] : i \in DOMAIN s}

IsPerm(s, n) == Len(s) = n /\ Range(s) = 1..n

Perms(n) == {p \in [1..n -> 1..n] : Range(p) = 1..n}

\* mutant: the exchange without a temporary (s[i] = s[j]; s[j] = s[i])
SwapOverwrite(s, i, j) == [k \in DOMAIN s |-> IF k = i THEN s[j] ELSE s[k]]

\* s with positions i and j exchanged (Vec::swap)
Swap(s, i, j) == [k \in DOMAIN s |-> IF k = i THEN s[j] ELSE IF k = j THEN s[i] ELSE s[k]]

\* s with the closed range l..r reversed (slice[l..=r].reverse())
ReverseRange(s, l, r) == [k \in DOMAIN s |-> IF l <= k /\ k <= r THEN s[l + r - k] ELSE s[k]]

Reverse(s) == [k \in DOMAIN s |-> s[Len(s) + 1 - k]]

\* the elements of s that satisfy keep, in order (Iterator::filter().collect())
RECURSIVE Filter(_, _)
Filter(s, keep) ==
    IF s = <<>> THEN <<>>
    ELSE (IF Head(s) \in keep THEN <<Head(s)>> ELSE <<>>) \o Filter(Tail(s), keep)

\* first position of x in s (Iterator::position), 0 when absent
Position(s, x) == IF x \in Range(s) THEN CHOOSE i \in DOMAIN s : s[i] = x /\ \A k \in 1..(i - 1) : s[k] # x
                  ELSE 0

-----------------------------------------------------------------------------
(* tsplib.rs: distance model and Route *)

euclidean_distance(a, b) ==
    RoundSqrt[(a[1] - b[1]) * (a[1] - b[1]) + (a[2] - b[2]) * (a[2] - b[2])]

\* mutant: the wrap edge closes on the second city
calculate_distance_wrap1(cities) ==
    LET n == Len(cities)
        RECURSIVE Acc(_)
        Acc(i) == IF i > n THEN 0 ELSE euclidean_distance(cities[i - 1], cities[i]) + Acc(i + 1)
    IN euclidean_distance(cities[n], cities[Min(2, n)]) + Acc(2)

\* Route::calculate_distance; the caller guarantees Len(cities) >= 1
calculate_distance(cities) ==
    LET n == Len(cities)
        RECURSIVE Acc(_)
        Acc(i) == IF i > n THEN 0 ELSE euclidean_distance(cities[i - 1], cities[i]) + Acc(i + 1)
    IN euclidean_distance(cities[n], cities[1]) + Acc(2)

RouteNew(coords) == [cities |-> coords, distance |-> calculate_distance(coords)]

\* mutant: the reversal keeps the cached distance of the receiver
two_opt_move_stale(route, i, j) ==
    [cities |-> ReverseRange(route.cities, Min(i, j), Max(i, j)), distance |-> route.distance]

two_opt_move(route, i, j) ==
    LET new_cities == ReverseRange(route.cities, Min(i, j), Max(i, j))
    IN [cities |-> new_cities, distance |-> calculate_distance(new_cities)]

\* Route::swap_random_cities with the drawn i, j
swap_cities(route, i, j) ==
    LET new_cities == Swap(route.cities, i, j)
    IN [cities |-> new_cities, distance |-> calculate_distance(new_cities)]

\* mutant: only the upper triangle is filled
distance_matrix_upper(cities) ==
    [i \in 1..Len(cities) |-> [j \in 1..Len(cities) |->
        IF i < j THEN euclidean_distance(cities[i], cities[j]) ELSE 0]]

\* read_tsp_file: zero matrix, then both triangles from the upper pairs
distance_matrix(cities) ==
    [i \in 1..Len(cities) |-> [j \in 1..Len(cities) |->
        IF i = j THEN 0
        ELSE euclidean_distance(cities[Min(i, j)], cities[Max(i, j)])]]

\* the coordinates of a tour of city ids
CoordsOf(cities, path) == [k \in DOMAIN path |-> cities[path[k]]]

-----------------------------------------------------------------------------
(* aco.rs: exhaustive 2-opt *)

\* the index pairs of the nested 2-opt loops, in scan order:
\* for i in 0..n-2 { for j in i+2..n }
ScanPairs(n) ==
    LET RECURSIVE Row(_, _)
        Row(i, j) == IF j > n THEN <<>> ELSE <<(<<i, j>>)>> \o Row(i, j + 1)
        RECURSIVE Rows(_)
        Rows(i) == IF i > n - 2 THEN <<>> ELSE Row(i, i + 2) \o Rows(i + 1)
    IN Rows(1)

\* one pass of the for loops of apply_2opt: every candidate is a reversal of
\* the ORIGINAL route (route.two_opt_move), kept when strictly shorter
aco_scan(route, best) ==
    LET pairs == ScanPairs(Len(route.cities))
        RECURSIVE Go(_, _)
        Go(k, b) ==
            IF k > Len(pairs) THEN b
            ELSE LET new_route == two_opt_move(route, pairs[k][1], pairs[k][2])
                 IN Go(k + 1, IF new_route.distance < b.distance THEN new_route ELSE b)
    IN Go(1, best)

\* mutant: a candidate is kept when it is not equal in length
aco_apply_2opt_any(route) ==
    LET pairs == ScanPairs(Len(route.cities))
        RECURSIVE Go(_, _)
        Go(k, b) ==
            IF k > Len(pairs) THEN b
            ELSE LET new_route == two_opt_move(route, pairs[k][1], pairs[k][2])
                 IN Go(k + 1, IF new_route.distance # b.distance THEN new_route ELSE b)
    IN Go(1, route)

\* AntColonyOptimization::apply_2opt, for Len(route.cities) >= 2
RECURSIVE aco_while(_, _)
aco_while(route, best) ==
    LET nb == aco_scan(route, best)
    IN IF nb.distance < best.distance THEN aco_while(route, nb) ELSE nb

aco_apply_2opt(route) == aco_while(route, route)

(* aco.rs: select_next_city *)

\* mutant: no fallback after the scan (0 stands for no city)
select_next_city_no_fallback(current, unvisited, dm) ==
    LET zero == {k \in DOMAIN unvisited : dm[current][unvisited[k]] = 0}
    IN IF zero = {} THEN Range(unvisited)
       ELSE {unvisited[CHOOSE k \in zero : \A m \in zero : k <= m], 0}

\* select_next_city: the cities the roulette wheel can return.  With alpha,
\* beta > 0 and positive pheromone every candidate at a positive distance has a
\* positive finite weight and can be drawn.  A candidate at distance 0 has weight
\* 1/0 = inf: the sum is inf, random_value is inf (first infinite candidate
\* wins) or, for a draw of 0.0, NaN (no comparison succeeds: the fallback, the
\* last unvisited city)
select_next_city(current, unvisited, dm) ==
    LET zero == {k \in DOMAIN unvisited : dm[current][unvisited[k]] = 0}
    IN IF zero = {} THEN Range(unvisited)
       ELSE {unvisited[CHOOSE k \in zero : \A m \in zero : k <= m], unvisited[Len(unvisited)]}

-----------------------------------------------------------------------------
(* ga.rs: Chromosome *)

chrom_calculate_distance(route, dm) ==
    LET n == Len(route)
        RECURSIVE Acc(_)
        Acc(i) == IF i > n THEN 0 ELSE dm[route[i - 1]][route[i]] + Acc(i + 1)
    IN dm[route[n]][route[1]] + Acc(2)

ChromosomeNew(route, dm) == [route |-> route, distance |-> chrom_calculate_distance(route, dm)]

\* mutant: the second part of the fill starts at the left cut
crossover_slots_left(self, other, left, right) ==
    LET ln == Len(self)
        used == {self[k] : k \in left..(right - 1)}
        remaining == Filter(SubSeq(other, right, ln), (1..ln) \ used)
                     \o Filter(SubSeq(other, 1, left - 1), (1..ln) \ used)
        empty_positions == [k \in 1..(ln - right + 1) |-> right + k - 1]
                           \o [k \in 1..(left - 1) |-> k]
    IN [p \in 1..ln |->
          IF left <= p /\ p < right THEN self[p]
          ELSE LET k == Position(empty_positions, p)
               IN IF k <= Len(remaining) THEN remaining[k] ELSE 0]

\* Chromosome::crossover up to the unwrap, with the drawn cuts left < right:
\* the offspring's slots, 0 standing for None
crossover_slots(self, other, left, right) ==
    LET ln == Len(self)
        used == {self[k] : k \in left..(right - 1)}
        remaining == Filter(SubSeq(other, right, ln), (1..ln) \ used)
                     \o Filter(SubSeq(other, 1, right - 1), (1..ln) \ used)
        empty_positions == [k \in 1..(ln - right + 1) |-> right + k - 1]
                           \o [k \in 1..(left - 1) |-> k]
    IN [p \in 1..ln |->
          IF left <= p /\ p < right THEN self[p]
          ELSE LET k == Position(empty_positions, p)
               IN IF k <= Len(remaining) THEN remaining[k] ELSE 0]

\* mutant: the edge test is inverted
chrom_apply_2opt_worse(c, dm) ==
    LET n == Len(c.route)
        pairs == ScanPairs(n)
        RECURSIVE Go(_, _, _)
        Go(k, r, imp) ==
            IF k > Len(pairs) THEN [chrom |-> ChromosomeNew(r, dm), improved |-> imp]
            ELSE LET i == pairs[k][1]
                     j == pairs[k][2]
                     current_distance == dm[r[i]][r[i + 1]] + dm[r[j]][r[(j % n) + 1]]
                     new_distance == dm[r[i]][r[j]] + dm[r[i + 1]][r[(j % n) + 1]]
                 IN IF new_distance > current_distance
                    THEN Go(k + 1, ReverseRange(r, i + 1, j), TRUE)
                    ELSE Go(k + 1, r, imp)
    IN Go(1, c.route, FALSE)

\* Chromosome::apply_2opt: one pass, reversals applied in place
chrom_apply_2opt(c, dm) ==
    LET n == Len(c.route)
        pairs == ScanPairs(n)
        RECURSIVE Go(_, _, _)
        Go(k, cur, imp) ==
            IF k > Len(pairs) THEN [chrom |-> cur, improved |-> imp]
            ELSE LET i == pairs[k][1]
                     j == pairs[k][2]
                     r == cur.route
                     current_distance == dm[r[i]][r[i + 1]] + dm[r[j]][r[(j % n) + 1]]
                     new_distance == dm[r[i]][r[j]] + dm[r[i + 1]][r[(j % n) + 1]]
                 IN IF new_distance < current_distance
                    THEN Go(k + 1, ChromosomeNew(ReverseRange(r, i + 1, j), dm), TRUE)
                    ELSE Go(k + 1, cur, imp)
    IN Go(1, c, FALSE)

\* the random swap of Chromosome::mutate with the drawn i, j
chrom_swap(c, i, j, dm) == ChromosomeNew(Swap(c.route, i, j), dm)

\* mutant: the swap leaves the cached distance as it was
chrom_mutate_stale(c, do_2opt, do_swap, i, j, dm) ==
    LET c1 == IF do_2opt THEN chrom_apply_2opt(c, dm).chrom ELSE c
    IN IF do_swap THEN [route |-> Swap(c1.route, i, j), distance |-> c1.distance] ELSE c1

\* Chromosome::mutate for Len(c.route) >= 2: do_2opt and do_swap are the
\* outcomes of the two probability tests, i and j the drawn positions
chrom_mutate(c, do_2opt, do_swap, i, j, dm) ==
    LET c1 == IF do_2opt THEN chrom_apply_2opt(c, dm).chrom ELSE c
    IN IF do_swap THEN chrom_swap(c1, i, j, dm) ELSE c1

-----------------------------------------------------------------------------
(* pso.rs: fitness, randomized 2-opt, order crossover, swap sequences *)

pso_euclidean_distance(a, b) ==
    FixSqrt[(a[1] - b[1]) * (a[1] - b[1]) + (a[2] - b[2]) * (a[2] - b[2])]

calculate_fitness(route, node_coords) ==
    LET n == Len(route)
        RECURSIVE Acc(_)
        Acc(i) == IF i > n THEN 0
                  ELSE pso_euclidean_distance(node_coords[route[i]], node_coords[route[(i % n) + 1]])
                       + Acc(i + 1)
    IN Acc(1)

two_opt_swap(route, i, j) ==
    SubSeq(route, 1, i - 1) \o Reverse(SubSeq(route, i, j)) \o SubSeq(route, j + 1, Len(route))

\* the pairs local_search can draw: i in 1..n-2, j in i+1..n-1 (0-based)
LocalSearchPairs(n) == {p \in (2..(n - 2)) \X (3..(n - 1)) : p[1] < p[2]}

\* mutant: a candidate is kept unless it is longer by more than one unit
local_search_step_loose(best_route_, pair, node_coords) ==
    LET new_route == two_opt_swap(best_route_, pair[1], pair[2])
    IN IF calculate_fitness(new_route, node_coords)
          <= calculate_fitness(best_route_, node_coords) + FScale
       THEN new_route ELSE best_route_

\* one iteration of the loop of local_search with the drawn pair
local_search_step(best_route_, pair, node_coords) ==
    LET new_route == two_opt_swap(best_route_, pair[1], pair[2])
    IN IF calculate_fitness(new_route, node_coords) < calculate_fitness(best_route_, node_coords)
       THEN new_route ELSE best_route_

\* PSO::local_search for Len(route) >= 4: the routes it can return after
\* max_iterations draws (the set is stable once an iteration leaves it unchanged)
local_search(route, max_iterations, node_coords) ==
    LET pairs == LocalSearchPairs(Len(route))
        RECURSIVE Go(_, _)
        Go(k, S) ==
            IF k = 0 THEN S
            ELSE LET T == {local_search_step(r, p, node_coords) : r \in S, p \in pairs}
                 IN IF T = S THEN S ELSE Go(k - 1, T)
    IN Go(max_iterations, {route})

\* mutant: the rest of the second parent is not filtered against the segment
pso_crossover_nofilter(route1, route2, start, end) ==
    LET segment == SubSeq(route1, start, end)
        remaining == SubSeq(route2, 1, Len(route2) - Len(segment))
    IN SubSeq(remaining, 1, start - 1) \o segment \o SubSeq(remaining, start, Len(remaining))

\* PSO::crossover with the drawn start <= end
pso_crossover(route1, route2, start, end) ==
    LET segment == SubSeq(route1, start, end)
        remaining == Filter(route2, Range(route2) \ Range(segment))
    IN SubSeq(remaining, 1, start - 1) \o segment \o SubSeq(remaining, start, Len(remaining))

\* mutant: the position is looked up in the unswapped route
get_swap_sequence_stale(from_route, to_route) ==
    LET n == Len(from_route)
        RECURSIVE Go(_, _)
        Go(i, swaps) ==
            IF i > n THEN swaps
            ELSE IF from_route[i] # to_route[i] /\ Position(from_route, to_route[i]) # 0
                 THEN Go(i + 1, Append(swaps, <<i, Position(from_route, to_route[i])>>))
                 ELSE Go(i + 1, swaps)
    IN Go(1, <<>>)

\* PSO::get_swap_sequence
get_swap_sequence(from_route, to_route) ==
    LET n == Len(from_route)
        RECURSIVE Go(_, _, _)
        Go(i, fr, swaps) ==
            IF i > n THEN swaps
            ELSE IF fr[i] # to_route[i] /\ Position(fr, to_route[i]) # 0
                 THEN LET j == Position(fr, to_route[i])
                      IN Go(i + 1, Swap(fr, i, j), Append(swaps, <<i, j>>))
                 ELSE Go(i + 1, fr, swaps)
    IN Go(1, from_route, <<>>)

\* PSO::apply_velocity
apply_velocity(route, velocity) ==
    LET RECURSIVE Go(_, _)
        Go(k, r) == IF k > Len(velocity) THEN r
                    ELSE Go(k + 1, Swap(r, velocity[k][1], velocity[k][2]))
    IN Go(1, route)

-----------------------------------------------------------------------------
(* Instances *)

\* four corners and the centre of a square: tours of different lengths
X5 == << <<2, 2>>, <<0, 0>>, <<0, 2>>, <<2, 0>>, <<1, 1>> >>
\* a 4 x 3 rectangle, corners listed out of tour order
Rect4 == << <<0, 0>>, <<4, 3>>, <<0, 3>>, <<4, 0>> >>
\* the unit square: its diagonals, of length sqrt(2), round to 1
Square4 == << <<0, 0>>, <<0, 1>>, <<1, 1>>, <<1, 0>> >>

\* two cities at the same coordinates: a distance of 0
Dup3 == << <<0, 0>>, <<0, 0>>, <<3, 4>> >>

\* four cities whose nearest-neighbour tour is longer than the shortest tour
\* from every start
Kite4 == << <<0, 0>>, <<0, 2>>, <<1, 1>>, <<2, 0>> >>

FnInstances == {SubSeq(X5, 1, k) : k \in 1..Min(MaxPairN, 5)} \cup {X5, Rect4, Dup3}

-----------------------------------------------------------------------------
(* The tour primitives called on their own: SpecFn *)

InitFn ==
    /\ engine = "fn"
    /\ tsp \in FnInstances
    /\ cfg = Null
    /\ pc = "fn_call"
    /\ history = <<>>
    /\ best_route = Null
    /\ loc = Null
    /\ \E p \in Perms(Len(tsp)) : arg = [a |-> p, b |-> <<>>]
    /\ ret = [op |-> "none"]

FnKeep == UNCHANGED <<engine, tsp, cfg, history, best_route, loc>>

\* Route::calculate_distance and Chromosome::calculate_distance on a tour and on its reversal
FnDistance ==
    /\ engine = "fn" /\ pc = "fn_call"
    /\ LET dm == distance_matrix(tsp)
           coords == CoordsOf(tsp, arg.a)
       IN ret' = [op |-> "distance",
                  route |-> calculate_distance(coords),
                  route_rev |-> calculate_distance(Reverse(coords)),
                  chrom |-> chrom_calculate_distance(arg.a, dm),
                  chrom_rev |-> chrom_calculate_distance(Reverse(arg.a), dm)]
    /\ pc' = "fn_done"
    /\ UNCHANGED arg /\ FnKeep

\* Route::two_opt_move and the swap move with drawn positions
FnRouteMove ==
    /\ engine = "fn" /\ pc = "fn_call"
    /\ \E i, j \in 1..Len(tsp), swap \in BOOLEAN :
         LET route == RouteNew(CoordsOf(tsp, arg.a))
         IN ret' = [op |-> "route_move", in |-> route,
                    out |-> IF swap THEN swap_cities(route, i, j) ELSE two_opt_move(route, i, j)]
    /\ pc' = "fn_done"
    /\ UNCHANGED arg /\ FnKeep

\* AntColonyOptimization::apply_2opt, then once more on its own output
FnApply2optACO ==
    /\ engine = "fn" /\ pc = "fn_call" /\ Len(tsp) >= 2
    /\ LET route == RouteNew(CoordsOf(tsp, arg.a))
           out == aco_apply_2opt(route)
       IN ret' = [op |-> "aco_2opt", in |-> route, out |-> out, again |-> aco_apply_2opt(out)]
    /\ pc' = "fn_done"
    /\ UNCHANGED arg /\ FnKeep

\* Chromosome::apply_2opt
FnApply2optGA ==
    /\ engine = "fn" /\ pc = "fn_call" /\ Len(tsp) >= 2
    /\ LET dm == distance_matrix(tsp)
           c == ChromosomeNew(arg.a, dm)
           r == chrom_apply_2opt(c, dm)
       IN ret' = [op |-> "ga_2opt", in |-> c, out |-> r.chrom, improved |-> r.improved]
    /\ pc' = "fn_done"
    /\ UNCHANGED arg /\ FnKeep

\* Chromosome::mutate
FnMutateGA ==
    /\ engine = "fn" /\ pc = "fn_call" /\ Len(tsp) >= 2
    /\ \E do_2opt, do_swap \in BOOLEAN, i, j \in 1..Len(tsp) :
         LET dm == distance_matrix(tsp)
             c == ChromosomeNew(arg.a, dm)
         IN ret' = [op |-> "ga_mutate", in |-> c,
                    out |-> chrom_mutate(c, do_2opt, do_swap, i, j, dm)]
    /\ pc' = "fn_done"
    /\ UNCHANGED arg /\ FnKeep

\* PSO::local_search with the iteration count of the periodic call
FnLocalSearchPSO ==
    /\ engine = "fn" /\ pc = "fn_call" /\ Len(tsp) >= 4
    /\ \E out \in local_search(arg.a, 20, tsp) :
         ret' = [op |-> "pso_ls", in |-> arg.a, out |-> out]
    /\ pc' = "fn_done"
    /\ UNCHANGED arg /\ FnKeep

\* the second tour of the two-tour operators
FnDrawOther ==
    /\ engine = "fn" /\ pc = "fn_call" /\ Len(tsp) <= MaxPairN
    /\ \E q \in Perms(Len(tsp)) : arg' = [arg EXCEPT !.b = q]
    /\ pc' = "fn_call2"
    /\ UNCHANGED ret /\ FnKeep

\* PSO::get_swap_sequence(a, b), then PSO::apply_velocity(a, swaps)
FnSwapSequence ==
    /\ engine = "fn" /\ pc = "fn_call2"
    /\ LET swaps == get_swap_sequence(arg.a, arg.b)
       IN ret' = [op |-> "swapseq", swaps |-> swaps, applied |-> apply_velocity(arg.a, swaps)]
    /\ pc' = "fn_done"
    /\ UNCHANGED arg /\ FnKeep

\* Chromosome::crossover: i1, i2 drawn from 0..ln, i2 redrawn while equal to i1
FnCrossoverGA ==
    /\ engine = "fn" /\ pc = "fn_call2"
    /\ \E i1, i2 \in 1..Len(tsp) :
         /\ i1 # i2
         /\ LET left == Min(i1, i2)
                right == Max(i1, i2)
                slots == crossover_slots(arg.a, arg.b, left, right)
            IN ret' = [op |-> "ga_cross", left |-> left, right |-> right, slots |-> slots,
                       out |-> IF 0 \in Range(slots) THEN Null
                               ELSE ChromosomeNew(slots, distance_matrix(tsp))]
    /\ pc' = "fn_done"
    /\ UNCHANGED arg /\ FnKeep

\* PSO::crossover: start drawn from 0..size, end from start..size
FnCrossoverPSO ==
    /\ engine = "fn" /\ pc = "fn_call2"
    /\ \E start \in 1..Len(tsp) : \E end \in start..Len(tsp) :
         ret' = [op |-> "pso_cross", start |-> start, end |-> end,
                 out |-> pso_crossover(arg.a, arg.b, start, end)]
    /\ pc' = "fn_done"
    /\ UNCHANGED arg /\ FnKeep

\* AntColonyOptimization::select_next_city from a city of the tour, with the
\* cities after it unvisited
FnSelectNextCity ==
    /\ engine = "fn" /\ pc = "fn_call" /\ Len(tsp) >= 2
    /\ \E k \in 1..(Len(tsp) - 1) :
         LET unvisited == SubSeq(arg.a, k + 1, Len(tsp))
         IN \E next \in select_next_city(arg.a[k], unvisited, distance_matrix(tsp)) :
               ret' = [op |-> "aco_select", current |-> arg.a[k], unvisited |-> unvisited,
                       out |-> next]
    /\ pc' = "fn_done"
    /\ UNCHANGED arg /\ FnKeep

\* PSO::calculate_fitness of a tour, next to the length the Route of the same
\* tour caches and the length a Chromosome reads from the distance matrix
FnFitnessPSO ==
    /\ engine = "fn" /\ pc = "fn_call"
    /\ ret' = [op |-> "pso_fitness",
               fitness |-> calculate_fitness(arg.a, tsp),
               route |-> RouteNew(CoordsOf(tsp, arg.a)).distance,
               chrom |-> chrom_calculate_distance(arg.a, distance_matrix(tsp))]
    /\ pc' = "fn_done"
    /\ UNCHANGED arg /\ FnKeep

NextFn ==
    \/ FnDistance
    \/ FnRouteMove
    \/ FnApply2optACO
    \/ FnApply2optGA
    \/ FnMutateGA
    \/ FnLocalSearchPSO
    \/ FnDrawOther
    \/ FnSwapSequence
    \/ FnCrossoverGA
    \/ FnCrossoverPSO
    \/ FnSelectNextCity
    \/ FnFitnessPSO

SpecFn == InitFn /\ [][NextFn]_vars

-----------------------------------------------------------------------------
(* Properties of the tour primitives (checked under SpecFn) *)

\* the cyclic length of a tour of coordinates: every edge to the cyclic successor
CyclicLength(cities) ==
    LET n == Len(cities)
        RECURSIVE Acc(_)
        Acc(i) == IF i > n THEN 0
                  ELSE euclidean_distance(cities[i], cities[(i % n) + 1]) + Acc(i + 1)
    IN Acc(1)

\* C2: every 2-opt local search (ACO apply_2opt, GA Chromosome::apply_2opt, PSO
\* local_search) returns a tour no longer than the tour it was given
C2_LocalSearchNeverWorse ==
    /\ ret.op = "aco_2opt" =>
          CyclicLength(ret.out.cities) <= CyclicLength(ret.in.cities)
    /\ ret.op = "ga_2opt" =>
          CyclicLength(CoordsOf(tsp, ret.out.route)) <= CyclicLength(CoordsOf(tsp, ret.in.route))
    /\ ret.op = "pso_ls" =>
          calculate_fitness(ret.out, tsp) <= calculate_fitness(ret.in, tsp)

C2_Witness ==
    \/ ret.op = "aco_2opt" /\ Len(tsp) >= 4
         /\ CyclicLength(ret.out.cities) < CyclicLength(ret.in.cities)
    \/ ret.op = "ga_2opt" /\ Len(tsp) >= 4 /\ ret.improved
         /\ CyclicLength(CoordsOf(tsp, ret.out.route)) < CyclicLength(CoordsOf(tsp, ret.in.route))
    \/ ret.op = "pso_ls" /\ calculate_fitness(ret.out, tsp) < calculate_fitness(ret.in, tsp)

\* C3: apply_2opt run again on its own output returns a tour of the same distance
C3_Apply2optIdempotent ==
    ret.op = "aco_2opt" => ret.again.distance = ret.out.distance

\* C4: get_swap_sequence(from, to) returns at most n-1 swaps (i, j), each with
\* j > i, and apply_velocity(from, swaps) is exactly `to`
C4_SwapSequenceReachesTarget ==
    ret.op = "swapseq" =>
        /\ Len(ret.swaps) <= Max(Len(arg.a) - 1, 0)
        /\ \A k \in DOMAIN ret.swaps : ret.swaps[k][2] > ret.swaps[k][1]
        /\ ret.applied = arg.b

C4_Witness ==
    /\ ret.op = "swapseq"
    /\ Len(arg.a) >= 3
    /\ Len(ret.swaps) = Len(arg.a) - 1
    /\ ret.applied = arg.b

\* C5: order crossover (GA and PSO) returns a permutation of all n cities with
\* no unfilled slot, carrying the first parent's cut segment at the same positions
C5_CrossoverValidPermutation ==
    /\ ret.op = "ga_cross" =>
          /\ 0 \notin Range(ret.slots)
          /\ IsPerm(ret.slots, Len(arg.a))
          /\ \A p \in ret.left..(ret.right - 1) : ret.slots[p] = arg.a[p]
    /\ ret.op = "pso_cross" =>
          /\ IsPerm(ret.out, Len(arg.a))
          /\ \A p \in ret.start..ret.end : ret.out[p] = arg.a[p]

C5_Witness ==
    /\ Len(arg.a) >= 4
    /\ arg.a # arg.b
    /\ \/ ret.op = "ga_cross" /\ ret.left > 1 /\ ret.right - ret.left >= 2
             /\ ret.slots # arg.a /\ ret.slots # arg.b
       \/ ret.op = "pso_cross" /\ ret.start > 1 /\ ret.end < Len(arg.a)
             /\ ret.out # arg.a /\ ret.out # arg.b

\* C8: the cyclic distance of a tour equals that of the reversed tour, for
\* Route::calculate_distance and for Chromosome::calculate_distance
C8_ReversalInvariant ==
    ret.op = "distance" =>
        /\ ret.route = ret.route_rev
        /\ ret.chrom = ret.chrom_rev

C8_Witness ==
    /\ ret.op = "distance"
    /\ Len(arg.a) >= 4
    /\ Reverse(arg.a) # arg.a
    /\ ret.route = ret.route_rev
    /\ \E q \in Perms(Len(arg.a)) : calculate_distance(CoordsOf(tsp, q)) # ret.route

-----------------------------------------------------------------------------
(* Nearest-neighbour construction (aco.rs, ga.rs, sa.rs, pso.rs) *)

\* initialize_nearest_neighbor / nearest_neighbor_route from the drawn start
\* city, over the distances d: min_by returns the first of several minima
nearest_neighbor(d, n, start) ==
    LET Go[st \in [current_city : 1..n, unvisited : Seq(1..n), route : Seq(1..n)]] ==
            IF st.unvisited = <<>> THEN st.route
            ELSE LET next_index == CHOOSE k \in DOMAIN st.unvisited :
                        /\ \A m \in DOMAIN st.unvisited :
                              d[st.current_city][st.unvisited[k]] <= d[st.current_city][st.unvisited[m]]
                        /\ \A m \in 1..(k - 1) :
                              d[st.current_city][st.unvisited[m]] > d[st.current_city][st.unvisited[k]]
                     next == st.unvisited[next_index]
                 IN Go[[current_city |-> next,
                        unvisited |-> SubSeq(st.unvisited, 1, next_index - 1)
                                         \o SubSeq(st.unvisited, next_index + 1, Len(st.unvisited)),
                        route |-> Append(st.route, next)]]
    IN Go[[current_city |-> start,
           unvisited |-> Filter([k \in 1..n |-> k], (1..n) \ {start}),
           route |-> <<start>>]]

-----------------------------------------------------------------------------
(* Instances and construction of the engines *)

\* degenerate instances
Empty0 == <<>>
One1 == << <<0, 0>> >>

\* the instances of the modelled runs: the unit square for the engines whose
\* best tour the square scenario reads, a suboptimal nearest-neighbour seed
\* for ACO and PSO, coincident cities for ACO
EngineInstances(e) ==
    {Rect4, One1, Empty0}
        \cup (IF e \in {"aco", "ga", "pso"} THEN {Square4} ELSE {})
        \cup (IF e \in {"aco", "pso"} THEN {Kite4} ELSE {})
        \cup (IF e = "aco" THEN {Dup3} ELSE {})

\* rates and probabilities are kept in units of 1/RScale
RScale == 100 * 1000

\* SimulatedAnnealing::new: the parameters of the modelled runs; cooling rates
\* below, inside and above the clamp, and a negative one
SAConfigs ==
    {[initial_temperature |-> 2 * TScale,
      final_temperature |-> 2 * TScale - gap,
      cooling_rate |-> r,
      moves_per_temp |-> MaxMoves,
      two_opt_probability |-> (9 * RScale) \div 10] :
        r \in {0 - RScale, (3 * RScale) \div 1000, 2 * RScale},
        gap \in {0, MaxEpochGap}}

\* GeneticAlgorithm::new: the parameters of the modelled runs, with an elite
\* below, equal to and above the population size; the mutation probability
\* lies strictly between 0 and 1, so both outcomes of each test occur
GAConfigs ==
    {[population_size |-> 2, elite_size |-> e, number_of_generations |-> MaxGenerations] :
        e \in {1, 2, 3}}
    \cup {[population_size |-> 2, elite_size |-> 2, number_of_generations |-> 1]}

\* AntColonyOptimization::new: the parameters of the modelled runs: alpha and
\* beta positive, decay in percent, q a positive whole number (main.rs uses
\* 300.0), and a local-search probability strictly between 0 and 1
ACOConfigs ==
    {[decay |-> d, q |-> PScale, ants |-> 2, iterations |-> 1] : d \in {0, 50}}
    \cup {[decay |-> d, q |-> PScale, ants |-> 1, iterations |-> MaxIterations] : d \in {0, 50, 99}}

\* PSO::new: the parameters of the modelled runs; the weights are probabilities
\* in percent (the repository's runs use weights of 1.0 and more); one swarm
\* has no particle
PSOConfigs ==
    {[num_particles |-> 2, max_iterations |-> 1,
      cognitive_weight |-> w, social_weight |-> w, local_search_freq |-> 2] : w \in {50, 150}}
    \cup {[num_particles |-> 0, max_iterations |-> 1,
            cognitive_weight |-> 50, social_weight |-> 50, local_search_freq |-> 2]}
    \cup {[num_particles |-> 1, max_iterations |-> MaxSwarmIterations,
            cognitive_weight |-> w, social_weight |-> w, local_search_freq |-> 2] : w \in {50, 150}}

Configs(e) ==
    IF e = "sa" THEN SAConfigs
    ELSE IF e = "ga" THEN GAConfigs
    ELSE IF e = "aco" THEN ACOConfigs
    ELSE IF e = "pso" THEN PSOConfigs
    ELSE {Null}

\* XxxAlgorithm::new: best_route = Route::new(&tsp.cities), which indexes
\* cities[len - 1] and so panics on an empty instance
InitEngine(e) ==
    /\ engine = e
    /\ tsp \in EngineInstances(e)
    /\ cfg \in Configs(e)
    /\ history = <<>>
    /\ best_route = IF Len(tsp) = 0 THEN Null ELSE RouteNew(tsp)
    /\ pc = IF Len(tsp) = 0 THEN "panic" ELSE "ready"
    /\ loc = Null
    /\ arg = [call |-> 1]
    /\ ret = [op |-> "none"]

-----------------------------------------------------------------------------
(* sa.rs: SimulatedAnnealing *)

\* mutant: the adaptive factor is applied without the clamp
sa_cool_unclamped(temperature, improved, cooling_rate) ==
    LET cooling_factor == IF improved THEN (cooling_rate * 95) \div 100
                          ELSE (cooling_rate * 105) \div 100
    IN (temperature * (RScale - cooling_factor) + RScale \div 2) \div RScale

\* the cooling step of solve: temperature *= 1 - clamp(cooling_factor, 0.001, 0.1)
sa_cool(temperature, improved, cooling_rate) ==
    LET cooling_factor == IF improved THEN (cooling_rate * 95) \div 100
                          ELSE (cooling_rate * 105) \div 100
        clamped == Max(Min(cooling_factor, RScale \div 10), RScale \div 1000)
    IN (temperature * (RScale - clamped) + RScale \div 2) \div RScale

\* generate_neighbor: the probability of the 2-opt branch at this temperature
sa_two_opt_prob(temperature) ==
    (cfg.two_opt_probability * temperature) \div cfg.initial_temperature

\* generate_neighbor for Len(route.cities) >= 2: the neighbours it can return
sa_neighbors(route, temperature) ==
    LET n == Len(route.cities)
        p == sa_two_opt_prob(temperature)
    IN (IF p > 0 THEN {two_opt_move(route, q[1], q[2]) :
                          q \in {r \in (1..(n - 1)) \X (2..n) : r[1] < r[2]}}
        ELSE {})
       \cup (IF p < RScale THEN {RouteNew(Swap(route.cities, i, j)) : i \in 1..n, j \in 1..n}
             ELSE {})

\* calculate_acceptance_probability > rng.gen(): can the move be accepted / rejected
\* (exp(-delta / temperature) is 0.0 in f64 once delta / temperature exceeds 745)
sa_can_accept(current_distance, new_distance, temperature) ==
    \/ new_distance <= current_distance
    \/ (new_distance - current_distance) * TScale < 745 * temperature

\* mutant: the uniform draw can exceed an acceptance probability of 1.0
sa_can_reject_any(current_distance, new_distance) == TRUE

sa_can_reject(current_distance, new_distance) == new_distance > current_distance

\* mutant: the loop test is made after the first epoch (do-while)
SASolveStartDoWhile ==
    /\ engine = "sa" /\ pc = "ready"
    /\ \E start \in 1..Len(tsp) :
         LET current_route == RouteNew(CoordsOf(tsp, nearest_neighbor(distance_matrix(tsp), Len(tsp), start)))
         IN /\ best_route' = current_route
            /\ loc' = [temperature |-> cfg.initial_temperature, epoch |-> 0,
                       current_route |-> current_route, improved |-> FALSE, k |-> 0]
    /\ pc' = "sa_moves"
    /\ UNCHANGED <<engine, tsp, cfg, history, arg, ret>>

\* the start of solve: the nearest-neighbour seed and the first test of
\* `while temperature > self.final_temperature`
SASolveStart ==
    /\ engine = "sa" /\ pc = "ready"
    /\ \E start \in 1..Len(tsp) :
         LET current_route == RouteNew(CoordsOf(tsp, nearest_neighbor(distance_matrix(tsp), Len(tsp), start)))
         IN /\ best_route' = current_route
            /\ loc' = [temperature |-> cfg.initial_temperature, epoch |-> 0,
                       current_route |-> current_route, improved |-> FALSE, k |-> 0]
    /\ pc' = IF cfg.initial_temperature > cfg.final_temperature THEN "sa_moves" ELSE "done"
    /\ UNCHANGED <<engine, tsp, cfg, history, arg, ret>>

\* one iteration of `for _ in 0..moves_per_temp`, the neighbour accepted
SAMoveAccept ==
    /\ engine = "sa" /\ pc = "sa_moves" /\ loc.k < cfg.moves_per_temp
    /\ Len(tsp) >= 2
    /\ \E new_route \in sa_neighbors(loc.current_route, loc.temperature) :
         /\ sa_can_accept(loc.current_route.distance, new_route.distance, loc.temperature)
         /\ IF new_route.distance < best_route.distance
            THEN /\ best_route' = new_route
                 /\ loc' = [loc EXCEPT !.current_route = new_route, !.improved = TRUE, !.k = @ + 1]
            ELSE /\ best_route' = best_route
                 /\ loc' = [loc EXCEPT !.current_route = new_route, !.k = @ + 1]
    /\ UNCHANGED <<engine, tsp, cfg, pc, history, arg, ret>>

\* one iteration of the moves loop, the neighbour rejected
SAMoveReject ==
    /\ engine = "sa" /\ pc = "sa_moves" /\ loc.k < cfg.moves_per_temp
    /\ Len(tsp) >= 2
    /\ \E new_route \in sa_neighbors(loc.current_route, loc.temperature) :
         sa_can_reject(loc.current_route.distance, new_route.distance)
    /\ loc' = [loc EXCEPT !.k = @ + 1]
    /\ UNCHANGED <<engine, tsp, cfg, pc, history, best_route, arg, ret>>

\* one iteration of the moves loop on a one-city route: the swap move exchanges
\* position 0 with itself and is accepted; the 2-opt branch draws from the
\* empty range 0..0 and panics
SAMoveOneCity ==
    /\ engine = "sa" /\ pc = "sa_moves" /\ loc.k < cfg.moves_per_temp
    /\ Len(tsp) = 1
    /\ \/ /\ sa_two_opt_prob(loc.temperature) < RScale
          /\ loc' = [loc EXCEPT !.k = @ + 1]
          /\ pc' = pc
       \/ /\ sa_two_opt_prob(loc.temperature) > 0
          /\ loc' = loc
          /\ pc' = "panic"
    /\ UNCHANGED <<engine, tsp, cfg, history, best_route, arg, ret>>

\* after the moves loop: history.push(current_route), cooling, epoch += 1,
\* and the test of the while loop
SAEpochEnd ==
    /\ engine = "sa" /\ pc = "sa_moves" /\ loc.k = cfg.moves_per_temp
    /\ history' = Append(history, loc.current_route)
    /\ LET t == sa_cool(loc.temperature, loc.improved, cfg.cooling_rate)
       IN /\ loc' = [loc EXCEPT !.temperature = t, !.epoch = @ + 1, !.improved = FALSE, !.k = 0]
          /\ pc' = IF t > cfg.final_temperature THEN "sa_moves" ELSE "done"
    /\ UNCHANGED <<engine, tsp, cfg, best_route, arg, ret>>

NextSA == SASolveStart \/ SAMoveAccept \/ SAMoveReject \/ SAMoveOneCity \/ SAEpochEnd

SpecSA == InitEngine("sa") /\ [][NextSA]_vars

\* SimulatedAnnealing::new on an instance whose nearest-neighbour seed is not
\* a shortest tour, and on the one-city instance
InitSAMoves ==
    /\ engine = "sa"
    /\ tsp \in {Kite4, One1}
    /\ cfg \in SAConfigs
    /\ history = <<>>
    /\ best_route = RouteNew(tsp)
    /\ pc = "ready"
    /\ loc = Null
    /\ arg = [call |-> 1]
    /\ ret = [op |-> "none"]

SpecSAMoves == InitSAMoves /\ [][NextSA]_vars

-----------------------------------------------------------------------------
(* ga.rs: GeneticAlgorithm *)

\* mutant: the population is left in insertion order
sort_by_distance_none(pop) == pop

\* population.sort_by_key(|c| c.distance): a stable sort
sort_by_distance(pop) ==
    LET RECURSIVE Insert(_, _)
        Insert(sorted, c) ==
            IF sorted = <<>> THEN <<c>>
            ELSE IF Head(sorted).distance <= c.distance
                 THEN <<Head(sorted)>> \o Insert(Tail(sorted), c)
                 ELSE <<c>> \o sorted
        RECURSIVE Go(_, _)
        Go(k, sorted) == IF k > Len(pop) THEN sorted ELSE Go(k + 1, Insert(sorted, pop[k]))
    IN Go(1, <<>>)

\* the start of solve: one nearest-neighbour chromosome, the rest random
GASolveStart ==
    /\ engine = "ga" /\ pc = "ready"
    /\ \E start \in 1..Len(tsp), rest \in [1..(cfg.population_size - 1) -> Perms(Len(tsp))] :
         LET dm == distance_matrix(tsp)
             nn == ChromosomeNew(nearest_neighbor(dm, Len(tsp), start), dm)
         IN loc' = [population |-> <<nn>> \o [k \in DOMAIN rest |-> ChromosomeNew(rest[k], dm)],
                    next_population |-> <<>>, generation |-> 0,
                    parent1 |-> <<>>, parent2 |-> <<>>, i1 |-> 0, i2 |-> 0]
    /\ pc' = IF cfg.number_of_generations > 0 THEN "ga_gen" ELSE "done"
    /\ UNCHANGED <<engine, tsp, cfg, history, best_route, arg, ret>>

\* mutant: the elite is taken from the tail of the sorted population
GABeginGenerationTail ==
    /\ engine = "ga" /\ pc = "ga_gen"
    /\ LET sorted == sort_by_distance(loc.population)
       IN IF cfg.elite_size > Len(sorted)
          THEN /\ loc' = [loc EXCEPT !.population = sorted]
               /\ pc' = "panic"
          ELSE /\ loc' = [loc EXCEPT !.population = sorted,
                                     !.next_population =
                                         SubSeq(sorted, Len(sorted) - cfg.elite_size + 1, Len(sorted))]
               /\ pc' = "ga_fill"
    /\ UNCHANGED <<engine, tsp, cfg, history, best_route, arg, ret>>

\* the head of a generation: sort, copy the elite (population[0..elite_size]
\* panics when elite_size exceeds the population)
GABeginGeneration ==
    /\ engine = "ga" /\ pc = "ga_gen"
    /\ LET sorted == sort_by_distance(loc.population)
       IN IF cfg.elite_size > Len(sorted)
          THEN /\ loc' = [loc EXCEPT !.population = sorted]
               /\ pc' = "panic"
          ELSE /\ loc' = [loc EXCEPT !.population = sorted,
                                     !.next_population = SubSeq(sorted, 1, cfg.elite_size)]
               /\ pc' = "ga_fill"
    /\ UNCHANGED <<engine, tsp, cfg, history, best_route, arg, ret>>

\* `while next_population.len() < population_size`: two tournament selections
\* (five draws each, the shortest kept: any member can win) and the first draw
\* of the cut points of crossover
GASelect ==
    /\ engine = "ga" /\ pc = "ga_fill"
    /\ Len(loc.next_population) < cfg.population_size
    /\ \E a, b \in DOMAIN loc.population, i1, i2 \in 1..Len(tsp) :
         loc' = [loc EXCEPT !.parent1 = loc.population[a].route,
                            !.parent2 = loc.population[b].route,
                            !.i1 = i1, !.i2 = i2]
    /\ pc' = "ga_cut"
    /\ UNCHANGED <<engine, tsp, cfg, history, best_route, arg, ret>>

\* `while i2 == i1 { i2 = rng.gen_range(0..ln) }`
GARedraw ==
    /\ engine = "ga" /\ pc = "ga_cut" /\ loc.i2 = loc.i1
    /\ \E i2 \in 1..Len(loc.parent1) : loc' = [loc EXCEPT !.i2 = i2]
    /\ UNCHANGED <<engine, tsp, cfg, pc, history, best_route, arg, ret>>

\* the rest of crossover, mutate, and the push of the offspring
GAOffspring ==
    /\ engine = "ga" /\ pc = "ga_cut" /\ loc.i2 # loc.i1
    /\ LET dm == distance_matrix(tsp)
           slots == crossover_slots(loc.parent1, loc.parent2, Min(loc.i1, loc.i2), Max(loc.i1, loc.i2))
       IN IF 0 \in Range(slots)
          THEN /\ loc' = loc
               /\ pc' = "panic"
          ELSE /\ \E do_2opt, do_swap \in BOOLEAN, i, j \in 1..Len(tsp) :
                    /\ do_swap \/ (i = 1 /\ j = 1)
                    /\ loc' = [loc EXCEPT
                          !.next_population =
                              Append(@, chrom_mutate(ChromosomeNew(slots, dm), do_2opt, do_swap, i, j, dm)),
                          !.parent1 = <<>>, !.parent2 = <<>>, !.i1 = 0, !.i2 = 0]
               /\ pc' = "ga_fill"
    /\ UNCHANGED <<engine, tsp, cfg, history, best_route, arg, ret>>

\* the tail of a generation: replace the population, sort, record the best
GAEndGeneration ==
    /\ engine = "ga" /\ pc = "ga_fill"
    /\ Len(loc.next_population) >= cfg.population_size
    /\ LET population == sort_by_distance(loc.next_population)
           best == RouteNew(CoordsOf(tsp, population[1].route))
       IN /\ history' = Append(history, best)
          /\ best_route' = IF best.distance < best_route.distance THEN best ELSE best_route
          /\ loc' = [loc EXCEPT !.population = population, !.next_population = <<>>,
                                !.generation = @ + 1]
          /\ pc' = IF loc.generation + 1 < cfg.number_of_generations THEN "ga_gen" ELSE "done"
    /\ UNCHANGED <<engine, tsp, cfg, arg, ret>>

NextGA == GASolveStart \/ GABeginGeneration \/ GASelect \/ GARedraw \/ GAOffspring \/ GAEndGeneration

SpecGA == InitEngine("ga") /\ [][NextGA]_vars

-----------------------------------------------------------------------------
(* aco.rs: AntColonyOptimization *)

\* f64::INFINITY in the fixed-point pheromone scale
PInf == PScale * 1000 * 1000

PAdd(a, b) == Min(a + b, PInf)

\* construct_solution up to the local search: the paths it can build
aco_paths(dm, n) ==
    LET RECURSIVE Go(_, _)
        Go(path, unvisited) ==
            IF unvisited = <<>> THEN {path}
            ELSE UNION {Go(Append(path, next), Filter(unvisited, (1..n) \ {next})) :
                           next \in select_next_city(path[Len(path)], unvisited, dm)}
    IN UNION {Go(<<start>>, Filter([k \in 1..n |-> k], (1..n) \ {start})) : start \in 1..n}

\* the deposit q / route.distance; a zero distance divides by zero and gives inf
aco_deposit(q, distance) == IF distance = 0 THEN PInf ELSE (q * PScale) \div distance

\* mutant: only the forward direction of an edge receives the deposit
aco_deposit_route_oneway(pheromone, cities, deposit) ==
    LET n == Len(cities)
        RECURSIVE Go(_, _)
        Go(i, ph) ==
            IF i > n THEN ph
            ELSE LET a == cities[i]
                     b == cities[(i % n) + 1]
                 IN Go(i + 1, [ph EXCEPT ![a][b] = PAdd(@, deposit)])
    IN Go(1, pheromone)

\* the deposit loop of update_pheromone for one route (cities as indices):
\* both directions of every consecutive edge, then of the wrap edge
aco_deposit_route(pheromone, cities, deposit) ==
    LET n == Len(cities)
        RECURSIVE Go(_, _)
        Go(i, ph) ==
            IF i > n THEN ph
            ELSE LET a == cities[i]
                     b == cities[(i % n) + 1]
                     ph1 == [ph EXCEPT ![a][b] = PAdd(@, deposit)]
                 IN Go(i + 1, [ph1 EXCEPT ![b][a] = PAdd(@, deposit)])
    IN Go(1, pheromone)

\* `*value *= factor` for a factor given in percent: the product is rounded to
\* the nearest representable value, ties to even, and infinity stays infinity
aco_times(value, percent) ==
    LET product == value * percent
        quotient == product \div 100
        rest == product % 100
    IN IF value >= PInf THEN PInf
       ELSE IF rest > 50 \/ (rest = 50 /\ quotient % 2 = 1) THEN quotient + 1
       ELSE quotient

\* mutant: evaporation multiplies by decay instead of 1 - decay
update_pheromone_by_decay(pheromone, solutions, cities) ==
    LET n == Len(cities)
        evaporated == [i \in 1..n |-> [j \in 1..n |-> aco_times(pheromone[i][j], cfg.decay)]]
        RECURSIVE Go(_, _)
        Go(k, ph) ==
            IF k > Len(solutions) THEN ph
            ELSE Go(k + 1,
                    aco_deposit_route(ph,
                        [m \in DOMAIN solutions[k].cities |-> Position(cities, solutions[k].cities[m])],
                        aco_deposit(cfg.q, solutions[k].distance)))
    IN Go(1, evaporated)

\* update_pheromone: evaporation, then the deposits of every solution
update_pheromone(pheromone, solutions, cities) ==
    LET n == Len(cities)
        evaporated == [i \in 1..n |-> [j \in 1..n |-> aco_times(pheromone[i][j], 100 - cfg.decay)]]
        RECURSIVE Go(_, _)
        Go(k, ph) ==
            IF k > Len(solutions) THEN ph
            ELSE Go(k + 1,
                    aco_deposit_route(ph,
                        [m \in DOMAIN solutions[k].cities |-> Position(cities, solutions[k].cities[m])],
                        aco_deposit(cfg.q, solutions[k].distance)))
    IN Go(1, evaporated)

\* construct_solution along path: select_next_city at path[k] computes
\* 1.0 / distance_matrix[path[k]][next] for every city next still unvisited;
\* is one of these divisors zero
aco_zero_eta(path, dm) ==
    \E k \in 1..(Len(path) - 1) : \E m \in (k + 1)..Len(path) : dm[path[k]][path[m]] = 0

\* the start of solve: pheromone of 1.0, best_route from nearest neighbour
\* (shortest records the least distance of the seed and of the solutions the
\* ants of this call have constructed)
ACOSolveStart ==
    /\ engine = "aco" /\ pc = "ready"
    /\ \E start \in 1..Len(tsp) :
         best_route' = RouteNew(CoordsOf(tsp, nearest_neighbor(distance_matrix(tsp), Len(tsp), start)))
    /\ loc' = [pheromone |-> [i \in 1..Len(tsp) |-> [j \in 1..Len(tsp) |-> PScale]],
               solutions |-> <<>>, iteration |-> 0, div_by_zero |-> FALSE, zero_eta |-> FALSE,
               shortest |-> best_route'.distance]
    /\ pc' = IF cfg.iterations > 0 THEN "aco_ants" ELSE "done"
    /\ UNCHANGED <<engine, tsp, cfg, history, arg, ret>>

\* mutant: the solution is pushed without the comparison with best_route
ACOAntKeepBest ==
    /\ engine = "aco" /\ pc = "aco_ants" /\ Len(loc.solutions) < cfg.ants
    /\ \E path \in aco_paths(distance_matrix(tsp), Len(tsp)), local_search_ \in BOOLEAN :
         LET route == RouteNew(CoordsOf(tsp, path))
             solution == IF local_search_ THEN aco_apply_2opt(route) ELSE route
         IN /\ local_search_ => Len(tsp) >= 2
            /\ best_route' = best_route
            /\ loc' = [loc EXCEPT !.solutions = Append(@, solution),
                                  !.zero_eta = @ \/ aco_zero_eta(path, distance_matrix(tsp)),
                                  !.shortest = Min(@, solution.distance)]
    /\ UNCHANGED <<engine, tsp, cfg, pc, history, arg, ret>>

\* one iteration of `for _ in 0..self.ants`: construct_solution, best update, push
ACOAnt ==
    /\ engine = "aco" /\ pc = "aco_ants" /\ Len(loc.solutions) < cfg.ants
    /\ \E path \in aco_paths(distance_matrix(tsp), Len(tsp)), local_search_ \in BOOLEAN :
         LET route == RouteNew(CoordsOf(tsp, path))
             solution == IF local_search_ THEN aco_apply_2opt(route) ELSE route
         IN /\ local_search_ => Len(tsp) >= 2
            /\ best_route' = IF solution.distance < best_route.distance THEN solution ELSE best_route
            /\ loc' = [loc EXCEPT !.solutions = Append(@, solution),
                                  !.zero_eta = @ \/ aco_zero_eta(path, distance_matrix(tsp)),
                                  !.shortest = Min(@, solution.distance)]
    /\ UNCHANGED <<engine, tsp, cfg, pc, history, arg, ret>>

\* apply_2opt on a route of fewer than 2 cities: `route.cities.len() - 2`
\* overflows usize.  A build with overflow checks panics; without them the
\* bound wraps, no pair is ever scanned and the route is returned as it is
ACOAntShortRoute ==
    /\ engine = "aco" /\ pc = "aco_ants" /\ Len(loc.solutions) < cfg.ants
    /\ Len(tsp) < 2
    /\ \E path \in aco_paths(distance_matrix(tsp), Len(tsp)) :
         LET solution == RouteNew(CoordsOf(tsp, path))
         IN \/ /\ pc' = "panic"
               /\ UNCHANGED <<best_route, loc>>
            \/ /\ pc' = pc
               /\ best_route' = IF solution.distance < best_route.distance THEN solution ELSE best_route
               /\ loc' = [loc EXCEPT !.solutions = Append(@, solution),
                                     !.shortest = Min(@, solution.distance)]
    /\ UNCHANGED <<engine, tsp, cfg, history, arg, ret>>

\* after the ants: update_pheromone and history.push(best_route)
ACOEndIteration ==
    /\ engine = "aco" /\ pc = "aco_ants" /\ Len(loc.solutions) >= cfg.ants
    /\ history' = Append(history, best_route)
    /\ loc' = [loc EXCEPT !.pheromone = update_pheromone(@, loc.solutions, tsp),
                          !.solutions = <<>>,
                          !.iteration = @ + 1,
                          !.div_by_zero = @ \/ \E k \in DOMAIN loc.solutions : loc.solutions[k].distance = 0]
    /\ pc' = IF loc.iteration + 1 < cfg.iterations THEN "aco_ants" ELSE "done"
    /\ UNCHANGED <<engine, tsp, cfg, best_route, arg, ret>>

NextACO == ACOSolveStart \/ ACOAnt \/ ACOAntShortRoute \/ ACOEndIteration

SpecACO == InitEngine("aco") /\ [][NextACO]_vars

-----------------------------------------------------------------------------
(* pso.rs: Particle and PSO *)

\* f64::INFINITY in the fixed-point fitness scale
FInf == FScale * 1000 * 1000

pso_distances(node_coords) ==
    [i \in 1..Len(node_coords) |-> [j \in 1..Len(node_coords) |->
        pso_euclidean_distance(node_coords[i], node_coords[j])]]

\* Particle::new followed by initialize_nearest_neighbor from the drawn start
ParticleNew(node_coords, start) ==
    [position |-> nearest_neighbor(pso_distances(node_coords), Len(node_coords), start),
     velocity |-> <<>>,
     best_position |-> [k \in 1..Len(node_coords) |-> k],
     best_fitness |-> FInf]

\* mutant: the personal best position is not refreshed
update_personal_best_fitness_only(particle, fitness) ==
    IF fitness < particle.best_fitness
    THEN [particle EXCEPT !.best_fitness = fitness]
    ELSE particle

\* Particle::update_personal_best
update_personal_best(particle, fitness) ==
    IF fitness < particle.best_fitness
    THEN [particle EXCEPT !.best_fitness = fitness, !.best_position = particle.position]
    ELSE particle

\* the state PSO::new leaves for the given start cities of the particles
\* (iteration_start_fitness records the global best fitness the running
\* iteration started from, stalled the number of iterations in a row that
\* ended without lowering it)
PSONew(node_coords, config, starts) ==
    [particles |-> [k \in 1..config.num_particles |-> ParticleNew(node_coords, starts[k])],
     global_best_position |-> [k \in 1..Len(node_coords) |-> k],
     global_best_fitness |-> FInf,
     iteration |-> 0, p |-> 1,
     iterations_without_improvement |-> 0,
     current_best_fitness |-> FInf,
     iteration_start_fitness |-> FInf,
     stalled |-> 0]

\* PSO::new: a panic on an empty instance (gen_range(0..0) in the first particle)
InitPSO ==
    /\ engine = "pso"
    /\ tsp \in EngineInstances("pso")
    /\ cfg \in PSOConfigs
    /\ history = <<>>
    /\ best_route = Null
    /\ arg = Null
    /\ ret = [op |-> "none"]
    /\ IF Len(tsp) = 0
       THEN /\ pc = "panic"
            /\ loc = Null
       ELSE /\ pc = "ready"
            /\ \E starts \in [1..cfg.num_particles -> 1..Len(tsp)] :
                 loc = PSONew(tsp, cfg, starts)

\* the crossovers one call of PSO::crossover can return
pso_crossovers(route1, route2) ==
    {pso_crossover(route1, route2, c[1], c[2]) :
        c \in {d \in (1..Len(route1)) \X (1..Len(route1)) : d[1] <= d[2]}}

\* update_velocity up to the swap sequence: the target routes it can build
pso_targets(particle, global_best_position) ==
    LET s0 == {particle.position}
        s1 == (IF cfg.cognitive_weight > 0
               THEN UNION {pso_crossovers(r, particle.best_position) : r \in s0} ELSE {})
              \cup (IF cfg.cognitive_weight < 100 THEN s0 ELSE {})
        s2 == (IF cfg.social_weight > 0
               THEN UNION {pso_crossovers(r, global_best_position) : r \in s1} ELSE {})
              \cup (IF cfg.social_weight < 100 THEN s1 ELSE {})
    IN s2 \cup {Swap(r, i, j) : r \in s2, i \in 1..Len(particle.position), j \in 1..Len(particle.position)}

\* the initial evaluation loop of optimize
PSOInitialEvaluation ==
    /\ engine = "pso" /\ pc = "ready"
    /\ LET RECURSIVE Go(_, _, _, _)
           Go(k, ps, gp, gf) ==
               IF k > Len(ps) THEN [particles |-> ps, gp |-> gp, gf |-> gf]
               ELSE LET fitness == calculate_fitness(ps[k].position, tsp)
                    IN Go(k + 1, [ps EXCEPT ![k] = update_personal_best(ps[k], fitness)],
                          IF fitness < gf THEN ps[k].position ELSE gp,
                          IF fitness < gf THEN fitness ELSE gf)
           r == Go(1, loc.particles, loc.global_best_position, loc.global_best_fitness)
       IN loc' = [loc EXCEPT !.particles = r.particles,
                             !.global_best_position = r.gp,
                             !.global_best_fitness = r.gf,
                             !.current_best_fitness = loc.global_best_fitness,
                             !.iteration_start_fitness = r.gf]
    /\ pc' = IF cfg.max_iterations > 0 THEN "pso_particles" ELSE "pso_final"
    /\ UNCHANGED <<engine, tsp, cfg, history, best_route, arg, ret>>

\* one iteration of `for particle in &mut self.particles`
PSOUpdateParticle ==
    /\ engine = "pso" /\ pc = "pso_particles" /\ loc.p <= Len(loc.particles)
    /\ LET particle == loc.particles[loc.p]
           searching == loc.iteration % cfg.local_search_freq = 0
       IN IF searching /\ Len(tsp) < 4
          THEN /\ pc' = "panic"
               /\ loc' = loc
          ELSE /\ pc' = pc
               /\ \E new_route \in pso_targets(particle, loc.global_best_position) :
                    LET velocity == get_swap_sequence(particle.position, new_route)
                        moved == apply_velocity(particle.position, velocity)
                    IN \E position \in (IF searching THEN local_search(moved, 20, tsp) ELSE {moved}) :
                         LET fitness == calculate_fitness(position, tsp)
                             updated == update_personal_best(
                                 [particle EXCEPT !.velocity = velocity, !.position = position], fitness)
                         IN loc' = [loc EXCEPT
                               !.particles[loc.p] = updated,
                               !.global_best_fitness = IF fitness < @ THEN fitness ELSE @,
                               !.global_best_position = IF fitness < loc.global_best_fitness THEN position ELSE @,
                               !.p = @ + 1]
    /\ UNCHANGED <<engine, tsp, cfg, history, best_route, arg, ret>>

\* the end of an iteration: the improvement counter and the early stop
PSOEndIteration ==
    /\ engine = "pso" /\ pc = "pso_particles" /\ loc.p > Len(loc.particles)
    /\ LET improved == loc.global_best_fitness < loc.current_best_fitness
           without == IF improved THEN 0 ELSE loc.iterations_without_improvement + 1
       IN /\ loc' = [loc EXCEPT !.current_best_fitness = IF improved THEN loc.global_best_fitness ELSE @,
                                !.iterations_without_improvement = without,
                                !.iteration = @ + 1,
                                !.p = 1,
                                !.iteration_start_fitness = loc.global_best_fitness,
                                !.stalled = IF loc.global_best_fitness < loc.iteration_start_fitness
                                            THEN 0 ELSE @ + 1]
          /\ pc' = IF without > 50 \/ loc.iteration + 1 >= cfg.max_iterations
                   THEN "pso_final" ELSE "pso_particles"
    /\ UNCHANGED <<engine, tsp, cfg, history, best_route, arg, ret>>

\* the final local search on the global best
PSOFinal ==
    /\ engine = "pso" /\ pc = "pso_final"
    /\ IF Len(tsp) < 4
       THEN /\ pc' = "panic"
            /\ loc' = loc
       ELSE /\ pc' = "done"
            /\ \E position \in local_search(loc.global_best_position, 100, tsp) :
                 loc' = [loc EXCEPT !.global_best_position = position,
                                    !.global_best_fitness = calculate_fitness(position, tsp)]
    /\ UNCHANGED <<engine, tsp, cfg, history, best_route, arg, ret>>

NextPSO == PSOInitialEvaluation \/ PSOUpdateParticle \/ PSOEndIteration \/ PSOFinal

SpecPSO == InitPSO /\ [][NextPSO]_vars

\* PSO::new for a run long enough to reach the early stop: one particle on the
\* unit square, crossover probabilities of 0, local search in the first
\* iteration only
InitPSOLong ==
    /\ engine = "pso"
    /\ tsp = Square4
    /\ cfg = [num_particles |-> 1, max_iterations |-> 53,
              cognitive_weight |-> 0, social_weight |-> 0, local_search_freq |-> 60]
    /\ history = <<>>
    /\ best_route = Null
    /\ arg = Null
    /\ ret = [op |-> "none"]
    /\ pc = "ready"
    /\ \E starts \in [1..cfg.num_particles -> 1..Len(tsp)] : loc = PSONew(tsp, cfg, starts)

SpecPSOLong == InitPSOLong /\ [][NextPSO]_vars

-----------------------------------------------------------------------------
(* The four engines, one per behaviour *)

\* the caller runs solve once more on the same engine object: the fields of
\* the struct (history, best_route) are as the previous call left them.  The
\* modelled scenario is one second call, after a run that recorded at most one
\* entry
SolveAgain ==
    /\ engine \in {"aco", "ga", "sa"} /\ pc = "done"
    /\ arg.call = 1
    /\ Len(history) <= 1
    /\ arg' = [call |-> 2]
    /\ pc' = "ready"
    /\ loc' = Null
    /\ UNCHANGED <<engine, tsp, cfg, history, best_route, ret>>

Init == InitEngine("aco") \/ InitEngine("ga") \/ InitEngine("sa") \/ InitPSO

Next == NextACO \/ NextGA \/ NextSA \/ NextPSO \/ SolveAgain

Spec == Init /\ [][Next]_vars

\* solve is a sequential loop: a step that is enabled is eventually taken
SpecSALive == SpecSA /\ WF_vars(NextSA)

-----------------------------------------------------------------------------
(* Properties of the engines *)

NonIncreasing(h) == \A k \in 1..(Len(h) - 1) : h[k + 1].distance <= h[k].distance

\* C1: for every engine (ACO, GA, SA) the distances of the routes appended to
\* history are non-increasing
C1_HistoryNonIncreasing ==
    engine \in {"aco", "ga", "sa"} => NonIncreasing(history)

Count(s, x) == Cardinality({i \in DOMAIN s : s[i] = x})

\* a tour of coordinates that visits every city of the instance exactly once
IsRouteTour(cities) ==
    /\ Len(cities) = Len(tsp)
    /\ \A i \in DOMAIN tsp : Count(cities, tsp[i]) = Count(tsp, tsp[i])

\* a tour of city indices that visits every city exactly once
IsIndexTour(route) == IsPerm(route, Len(tsp))

\* C6: every tour an engine holds has the length of the instance and contains
\* each city exactly once
C6_ToursArePermutations ==
    /\ engine \in {"aco", "ga", "sa"} =>
          /\ best_route # Null => IsRouteTour(best_route.cities)
          /\ \A k \in DOMAIN history : IsRouteTour(history[k].cities)
    /\ engine = "aco" /\ pc \in {"aco_ants", "done"} =>
          \A k \in DOMAIN loc.solutions : IsRouteTour(loc.solutions[k].cities)
    /\ engine = "ga" /\ pc \in {"ga_gen", "ga_fill", "ga_cut", "done"} =>
          /\ \A k \in DOMAIN loc.population : IsIndexTour(loc.population[k].route)
          /\ \A k \in DOMAIN loc.next_population : IsIndexTour(loc.next_population[k].route)
          /\ pc = "ga_cut" => IsIndexTour(loc.parent1) /\ IsIndexTour(loc.parent2)
    /\ engine = "sa" /\ pc \in {"sa_moves", "done"} =>
          IsRouteTour(loc.current_route.cities)
    /\ engine = "pso" /\ loc # Null =>
          /\ IsIndexTour(loc.global_best_position)
          /\ \A k \in DOMAIN loc.particles :
                /\ IsIndexTour(loc.particles[k].position)
                /\ IsIndexTour(loc.particles[k].best_position)

C6_Witness ==
    /\ Len(tsp) = 4
    /\ pc = "done"
    /\ engine = "pso"
    /\ Len(loc.particles) = 2
    /\ loc.particles[1].velocity # <<>>
    /\ loc.particles[1].position # loc.particles[2].position
    /\ loc.particles[2].position # loc.particles[2].best_position
    /\ IsIndexTour(loc.particles[2].position)

\* C9: the temperature is strictly smaller after every epoch, by a factor the
\* clamp keeps within [0.9, 0.999], for every cooling rate; and on an instance
\* of two or more cities solve reaches temperature <= final_temperature and returns
C9_CoolingTerminates ==
    /\ [][SAEpochEnd =>
            /\ loc'.temperature < loc.temperature
            /\ 10 * loc'.temperature + 10 >= 9 * loc.temperature
            /\ 1000 * loc'.temperature <= 999 * loc.temperature + 1000]_vars
    /\ (Len(tsp) >= 2 => <>(pc = "done" /\ loc.temperature <= cfg.final_temperature))

C9_Witness ==
    /\ engine = "sa"
    /\ pc = "done"
    /\ Len(tsp) >= 2
    /\ loc.epoch >= 2
    /\ Len(history) = loc.epoch
    /\ cfg.cooling_rate < 0
    /\ loc.temperature <= cfg.final_temperature
    /\ loc.temperature < cfg.initial_temperature

\* the redraw loop of crossover cannot leave: every draw repeats i1
CrossoverSpins ==
    /\ engine = "ga" /\ pc = "ga_cut"
    /\ \A i2 \in 1..Len(loc.parent1) : i2 = loc.i1

\* update_pheromone has divided q by a route distance of zero
DividedByZero ==
    /\ engine = "aco" /\ pc \in {"aco_ants", "done"}
    /\ loc.div_by_zero

\* C10: on an instance of dimension 0 or 1 no engine enters an unbounded loop
\* or divides by zero
C10_DegenerateNoLoopNoDivision ==
    Len(tsp) <= 1 => ~CrossoverSpins /\ ~DividedByZero

-----------------------------------------------------------------------------
(* Cached distances (checked under SpecFn) *)

\* C7: the cached distance of every Route produced by Route::new, two_opt_move
\* and the swap move, and of every Chromosome after crossover, apply_2opt and
\* mutate, is the cyclic length of its order, wrap edge included
C7_CachedDistanceConsistent ==
    /\ ret.op \in {"route_move", "aco_2opt"} =>
          /\ ret.in.distance = CyclicLength(ret.in.cities)
          /\ ret.out.distance = CyclicLength(ret.out.cities)
    /\ ret.op \in {"ga_2opt", "ga_mutate"} =>
          /\ ret.in.distance = CyclicLength(CoordsOf(tsp, ret.in.route))
          /\ ret.out.distance = CyclicLength(CoordsOf(tsp, ret.out.route))
    /\ ret.op = "ga_cross" /\ ret.out # Null =>
          ret.out.distance = CyclicLength(CoordsOf(tsp, ret.out.route))

C7_Witness ==
    /\ Len(tsp) >= 4
    /\ ret.op = "ga_mutate"
    /\ ret.out.route # ret.in.route
    /\ ret.out.distance # ret.in.distance
    /\ ret.out.distance = CyclicLength(CoordsOf(tsp, ret.out.route))

-----------------------------------------------------------------------------
(* Boundary configurations *)

SameMultiset(a, b) == \A x \in Range(a) \cup Range(b) : Count(a, x) = Count(b, x)

\* C11: with elite_size >= population_size the GA does not crash, and the next
\* generation is the same multiset of chromosomes as the current one
C11_EliteCoversPopulation ==
    (engine = "ga" /\ Len(tsp) >= 1 /\ cfg.elite_size >= cfg.population_size) =>
        /\ pc # "panic"
        /\ pc = "ga_fill" => SameMultiset(loc.next_population, loc.population)

\* the nearest-neighbour tours of the instance, one for each start city
SeedRoutes ==
    {RouteNew(CoordsOf(tsp, nearest_neighbor(distance_matrix(tsp), Len(tsp), start))) :
        start \in 1..Len(tsp)}

\* C12: with initial_temperature = final_temperature the SA solve returns
\* without an epoch: no neighbour is generated or accepted, nothing is pushed,
\* and the best route is the nearest-neighbour seed
C12_EqualTemperaturesNoMove ==
    /\ [](engine = "sa" /\ cfg.initial_temperature = cfg.final_temperature /\ pc # "ready" /\ Len(tsp) >= 1
            => /\ pc = "done"
               /\ loc.epoch = 0 /\ loc.k = 0
               /\ history = <<>>
               /\ loc.current_route = best_route
               /\ best_route \in SeedRoutes)
    /\ (cfg.initial_temperature = cfg.final_temperature /\ Len(tsp) >= 1 => <>(pc = "done"))

C12_Witness ==
    /\ engine = "sa"
    /\ cfg.initial_temperature = cfg.final_temperature
    /\ Len(tsp) = 4
    /\ pc = "done"
    /\ history = <<>>
    /\ best_route.cities # tsp

\* the index pairs of the edges of a route, wrap edge included
RouteEdges(route) ==
    LET n == Len(route.cities)
    IN {<<Position(tsp, route.cities[m]), Position(tsp, route.cities[(m % n) + 1])>> : m \in 1..n}

\* C13: with decay = 0 the first update_pheromone leaves no entry below the
\* initial value 1.0, and every edge an ant traversed is at or above it in
\* both directions
C13_ZeroDecayAdditive ==
    [][(ACOEndIteration /\ cfg.decay = 0 /\ loc.iteration = 0) =>
          /\ \A i, j \in 1..Len(tsp) : loc'.pheromone[i][j] >= PScale
          /\ \A k \in DOMAIN loc.solutions : \A e \in RouteEdges(loc.solutions[k]) :
                /\ loc'.pheromone[e[1]][e[2]] >= PScale
                /\ loc'.pheromone[e[2]][e[1]] >= PScale]_vars

C13_Witness ==
    /\ engine = "aco" /\ pc \in {"aco_ants", "done"}
    /\ cfg.decay = 0 /\ cfg.ants = 2
    /\ loc.iteration = 1
    /\ Len(tsp) = 4
    /\ \E i, j \in 1..4 : i # j /\ loc.pheromone[i][j] = PScale
    /\ \E i, j \in 1..4 : loc.pheromone[i][j] > PScale /\ loc.pheromone[j][i] > PScale

-----------------------------------------------------------------------------
(* The unit square *)

\* every edge of the cyclic tour is a side of the unit square: the tour is a
\* rotation or reflection of the instance order
UsesNoDiagonal(cities) ==
    LET n == Len(cities)
    IN \A m \in 1..n :
          LET a == cities[m]
              b == cities[(m % n) + 1]
          IN (a[1] - b[1]) * (a[1] - b[1]) + (a[2] - b[2]) * (a[2] - b[2]) = 1

\* C14: on the unit square every engine run to completion reports a best
\* distance of 4 on a tour that uses no diagonal
C14_SquareOptimal ==
    (tsp = Square4 /\ pc = "done") =>
        IF engine = "pso"
        THEN /\ loc.global_best_fitness = 4 * FScale
             /\ UsesNoDiagonal(CoordsOf(tsp, loc.global_best_position))
        ELSE /\ best_route.distance = 4
             /\ UsesNoDiagonal(best_route.cities)

-----------------------------------------------------------------------------
(* ACO selection (checked under SpecFn) *)

\* C15: select_next_city on a non-empty unvisited list returns a member of the
\* list and does not panic; when the scan selects nothing it returns the last
\* unvisited city
C15_SelectionReturnsUnvisited ==
    ret.op = "aco_select" =>
        /\ ret.unvisited # <<>>
        /\ ret.out \in Range(ret.unvisited)
        /\ ret.out # ret.current

C15_Witness ==
    /\ ret.op = "aco_select"
    /\ tsp = Dup3
    /\ Len(ret.unvisited) = 2
    /\ distance_matrix(tsp)[ret.current][ret.unvisited[1]] = 0
    /\ ret.out = ret.unvisited[Len(ret.unvisited)]

-----------------------------------------------------------------------------
(* ACO divisors *)

\* C16: ACO never divides by a zero distance, neither in the heuristic term
\* 1 / distance[cur][next] nor in the deposit q / route.distance
C16_NoZeroDivisor ==
    (engine = "aco" /\ pc \in {"aco_ants", "done"}) =>
        ~loc.zero_eta /\ ~loc.div_by_zero

-----------------------------------------------------------------------------
(* Repeated solve calls *)

\* the number of history.push calls the solve call under way has made
PushedThisCall ==
    IF engine = "sa" THEN loc.epoch
    ELSE IF engine = "aco" THEN loc.iteration
    ELSE loc.generation

\* C17: on any solve call, history holds only the entries that call appended
C17_HistoryOnlyFromLastCall ==
    (engine \in {"aco", "ga", "sa"} /\ pc \notin {"ready", "panic"}) =>
        Len(history) = PushedThisCall

-----------------------------------------------------------------------------
(* hyper.rs: optimize_hyperparameters *)

\* the engines of one trial, in the order the closure solves and pushes them
TrialAlgorithms == <<"ACO", "SA", "GA", "PSO">>

\* String::cmp on the algorithm names
AlgorithmRank(a) == IF a = "ACO" THEN 1 ELSE IF a = "GA" THEN 2 ELSE IF a = "PSO" THEN 3 ELSE 4

\* the comparator of final_results.sort_by: by algorithm, then by distance
hyper_less(a, b) ==
    \/ AlgorithmRank(a.algorithm) < AlgorithmRank(b.algorithm)
    \/ a.algorithm = b.algorithm /\ a.distance < b.distance

\* final_results.sort_by(..): a stable sort
hyper_sort(results) ==
    LET RECURSIVE Insert(_, _)
        Insert(sorted, c) ==
            IF sorted = <<>> THEN <<c>>
            ELSE IF hyper_less(c, Head(sorted))
                 THEN <<c>> \o sorted
                 ELSE <<Head(sorted)>> \o Insert(Tail(sorted), c)
        RECURSIVE Go(_, _)
        Go(k, sorted) == IF k > Len(results) THEN sorted ELSE Go(k + 1, Insert(sorted, results[k]))
    IN Go(1, <<>>)

\* the instance the trials solve: the four corners of X5
HyperInstance == SubSeq(X5, 1, 4)

\* the best distances a solve can report on the instance
TrialDistances == {calculate_distance(CoordsOf(HyperInstance, p)) : p \in Perms(4)}

\* optimize_hyperparameters(tsp, num_trials) up to the parallel loop: an empty
\* shared vector behind a free mutex, no trial started
InitHyper ==
    /\ engine = "hyper"
    /\ tsp = HyperInstance
    /\ cfg \in {[num_trials |-> n] : n \in 0..MaxTrials}
    /\ pc = "par_iter"
    /\ history = <<>>
    /\ best_route = Null
    /\ loc = [trials |-> [t \in 1..cfg.num_trials |-> [pc |-> "solve", local |-> <<>>, pushed |-> 0]],
              lock |-> 0,
              results |-> <<>>]
    /\ arg = Null
    /\ ret = [op |-> "none"]

HyperKeep == UNCHANGED <<engine, tsp, cfg, history, best_route, arg>>

\* one engine of trial t is constructed and solved; its OptimizationResult is
\* kept in a local of the closure (parameters stands for the trial's draw)
HyperSolve(t) ==
    /\ engine = "hyper" /\ pc = "par_iter"
    /\ loc.trials[t].pc = "solve" /\ Len(loc.trials[t].local) < Len(TrialAlgorithms)
    /\ \E d \in TrialDistances :
         loc' = [loc EXCEPT !.trials[t].local =
                    Append(@, [algorithm |-> TrialAlgorithms[Len(@) + 1], parameters |-> t, distance |-> d])]
    /\ UNCHANGED <<pc, ret>> /\ HyperKeep

\* mutant: the lock is taken whether or not another trial holds it
HyperLockNoExclusion(t) ==
    /\ engine = "hyper" /\ pc = "par_iter"
    /\ loc.trials[t].pc = "solve" /\ Len(loc.trials[t].local) = Len(TrialAlgorithms)
    /\ loc' = [loc EXCEPT !.lock = t, !.trials[t].pc = "push"]
    /\ UNCHANGED <<pc, ret>> /\ HyperKeep

\* results.lock().unwrap() after the four solves: blocks while another trial
\* holds the mutex
HyperLock(t) ==
    /\ engine = "hyper" /\ pc = "par_iter"
    /\ loc.trials[t].pc = "solve" /\ Len(loc.trials[t].local) = Len(TrialAlgorithms)
    /\ loc.lock = 0
    /\ loc' = [loc EXCEPT !.lock = t, !.trials[t].pc = "push"]
    /\ UNCHANGED <<pc, ret>> /\ HyperKeep

\* one results.push(..) of trial t
HyperPush(t) ==
    /\ engine = "hyper" /\ pc = "par_iter"
    /\ loc.trials[t].pc = "push" /\ loc.trials[t].pushed < Len(TrialAlgorithms)
    /\ loc' = [loc EXCEPT !.results = Append(@, loc.trials[t].local[loc.trials[t].pushed + 1]),
                          !.trials[t].pushed = @ + 1]
    /\ UNCHANGED <<pc, ret>> /\ HyperKeep

\* the end of the closure: the MutexGuard is dropped
HyperUnlock(t) ==
    /\ engine = "hyper" /\ pc = "par_iter"
    /\ loc.trials[t].pc = "push" /\ loc.trials[t].pushed = Len(TrialAlgorithms)
    /\ loc' = [loc EXCEPT !.lock = IF @ = t THEN 0 ELSE @, !.trials[t].pc = "finished"]
    /\ UNCHANGED <<pc, ret>> /\ HyperKeep

\* for_each returns when every trial has finished; the vector is taken out of
\* the mutex, sorted and returned
HyperJoin ==
    /\ engine = "hyper" /\ pc = "par_iter"
    /\ \A t \in DOMAIN loc.trials : loc.trials[t].pc = "finished"
    /\ ret' = [op |-> "optimize_hyperparameters", final_results |-> hyper_sort(loc.results)]
    /\ pc' = "done"
    /\ UNCHANGED loc /\ HyperKeep

NextHyper ==
    \/ \E t \in 1..MaxTrials :
          /\ t \in DOMAIN loc.trials
          /\ HyperSolve(t) \/ HyperLock(t) \/ HyperPush(t) \/ HyperUnlock(t)
    \/ HyperJoin

SpecHyper == InitHyper /\ [][NextHyper]_vars

\* C18: a trial pushes only after its four solves and only while it holds the
\* lock, and after the join the collection holds exactly the four results of
\* every trial, none lost or duplicated
C18_ResultsAfterJoin ==
    /\ [][\A t \in DOMAIN loc.trials : HyperPush(t) =>
             /\ loc.lock = t
             /\ Len(loc.trials[t].local) = Len(TrialAlgorithms)
             /\ \A u \in DOMAIN loc.trials : u # t => loc.trials[u].pc # "push"]_vars
    /\ [](pc = "done" =>
             /\ Len(loc.results) = 4 * cfg.num_trials
             /\ Len(ret.final_results) = 4 * cfg.num_trials
             /\ \A t \in 1..cfg.num_trials : \A k \in 1..4 :
                   /\ Count(loc.results, loc.trials[t].local[k]) >= 1
                   /\ Cardinality({i \in DOMAIN loc.results :
                          loc.results[i].parameters = t
                          /\ loc.results[i].algorithm = TrialAlgorithms[k]}) = 1
             /\ SameMultiset(ret.final_results, loc.results))

C18_Witness ==
    /\ engine = "hyper" /\ pc = "done"
    /\ cfg.num_trials = 2
    /\ Len(loc.results) = 8
    /\ loc.results[1].parameters = 2
    /\ ret.final_results # loc.results

-----------------------------------------------------------------------------
(* One numeric convention *)

\* C19: the fitness PSO computes for a tour equals the distance the other
\* engines compute for it (fitness is kept in units of 1/FScale, each of its
\* edges truncated by less than one unit)
C19_FitnessEqualsDistance ==
    (engine = "fn" /\ ret.op = "pso_fitness") =>
        /\ ret.route = ret.chrom
        /\ ret.fitness <= FScale * ret.route
        /\ FScale * ret.route - ret.fitness <= Len(arg.a)

-----------------------------------------------------------------------------
(* SA move selection *)

\* C20: when a cooling step lowers the temperature and the run goes on (both
\* temperatures lie in (final_temperature, initial_temperature]), the
\* probability of the 2-opt move at the lower temperature is at least the
\* probability at the higher one
C20_TwoOptShareRisesAsCooling ==
    [][(/\ engine = "sa" /\ pc = "sa_moves" /\ pc' = "sa_moves"
        /\ loc'.temperature < loc.temperature
        /\ loc'.temperature > cfg.final_temperature
        /\ loc.temperature <= cfg.initial_temperature)
       => sa_two_opt_prob(loc'.temperature) >= sa_two_opt_prob(loc.temperature)]_vars

-----------------------------------------------------------------------------
(* ACO best route *)

\* C21: at the end of every ACO iteration best_route.distance is the least
\* distance among the nearest-neighbour seed and the ant solutions constructed
\* so far in this call, and the history entry of the iteration is that route
C21_BestIsShortestSoFar ==
    (engine = "aco" /\ pc \in {"aco_ants", "done"}) =>
        /\ best_route.distance = loc.shortest
        /\ \A k \in DOMAIN loc.solutions : best_route.distance <= loc.solutions[k].distance
        /\ (loc.iteration > 0 /\ loc.solutions = <<>>) => history[Len(history)] = best_route

C21_Witness ==
    /\ engine = "aco" /\ pc \in {"aco_ants", "done"}
    /\ loc.iteration = 2 /\ loc.solutions = <<>>
    /\ Len(history) = 2
    /\ history[2].distance < history[1].distance
    /\ best_route = history[2]

-----------------------------------------------------------------------------
(* ACO pheromone update *)

\* the tours over city numbers that visit the coordinates of a solution in its order
IndexTours(solution) == {p \in Perms(Len(tsp)) : CoordsOf(tsp, p) = solution.cities}

\* how often the tour p steps from city i to city j, the wrap edge included
Steps(p, i, j) ==
    Cardinality({m \in DOMAIN p : p[m] = i /\ p[(m % Len(p)) + 1] = j})

\* the matrix after a tour has added deposit to both directions of its edges
DepositOnEdges(ph, p, deposit) ==
    LET RECURSIVE AddTimes(_, _)
        AddTimes(v, c) == IF c = 0 THEN v ELSE AddTimes(PAdd(v, deposit), c - 1)
    IN [i \in DOMAIN ph |-> [j \in DOMAIN ph |->
           AddTimes(ph[i][j], Steps(p, i, j) + Steps(p, j, i))]]

\* every entry multiplied by 1 - decay
Evaporated(ph) ==
    [i \in DOMAIN ph |-> [j \in DOMAIN ph |-> aco_times(ph[i][j], 100 - cfg.decay)]]

\* the matrices evaporation followed by the deposits of the solutions can give
DepositOutcomes(ph, solutions) ==
    LET RECURSIVE Go(_, _)
        Go(k, m) ==
            IF k > Len(solutions) THEN {m}
            ELSE UNION {Go(k + 1, DepositOnEdges(m, p, aco_deposit(cfg.q, solutions[k].distance))) :
                           p \in IndexTours(solutions[k])}
    IN Go(1, Evaporated(ph))

\* C22: the pheromone matrix does not change while the ants of an iteration
\* construct their tours; at the end of the iteration every entry is multiplied
\* by 1 - decay and then every tour adds q / distance to both directions of
\* exactly the edges it traverses, the wrap edge included
C22_EvaporateThenDeposit ==
    [][(engine = "aco" /\ pc = "aco_ants" /\ pc' # "panic") =>
         IF loc'.iteration = loc.iteration
         THEN loc'.pheromone = loc.pheromone
         ELSE loc'.pheromone \in DepositOutcomes(loc.pheromone, loc.solutions)]_vars

-----------------------------------------------------------------------------
(* GA generations *)

\* is chromosome m the chromosome c after at most one exchange of two positions
IsSwapOf(m, c) ==
    LET moved == {k \in DOMAIN c.route : m.route[k] # c.route[k]}
    IN /\ DOMAIN m.route = DOMAIN c.route
       /\ m.distance = CyclicLength(CoordsOf(tsp, m.route))
       /\ \/ moved = {}
          \/ \E i, j \in moved :
                /\ moved = {i, j}
                /\ m.route[i] = c.route[j] /\ m.route[j] = c.route[i]

\* is chromosome m a result of mutate (the optional 2-opt pass, then the
\* optional exchange) on the crossover of the parents cut at i1 and i2
IsOffspringOf(m, parent1, parent2, i1, i2) ==
    LET dm == distance_matrix(tsp)
        child == ChromosomeNew(crossover_slots(parent1, parent2, Min(i1, i2), Max(i1, i2)), dm)
    IN \/ IsSwapOf(m, child)
       \/ IsSwapOf(m, chrom_apply_2opt(child, dm).chrom)

\* C23: in a GA generation with elite_size <= population_size the elite_size
\* shortest chromosomes of the sorted population pass unchanged into the next
\* population, the next population has exactly population_size members, and
\* every other member is the mutated crossover offspring of two parents
\* selected from the previous population
C23_EliteKeptOffspringFill ==
    /\ []((engine = "ga" /\ cfg.elite_size <= cfg.population_size /\ pc \in {"ga_fill", "ga_cut"}) =>
            /\ Len(loc.population) = cfg.population_size
            /\ Len(loc.next_population) <= cfg.population_size
            /\ SubSeq(loc.next_population, 1, cfg.elite_size) = SubSeq(loc.population, 1, cfg.elite_size)
            /\ \A k \in 1..cfg.elite_size : \A m \in DOMAIN loc.population :
                  m > cfg.elite_size => loc.population[k].distance <= loc.population[m].distance
            /\ pc = "ga_cut" =>
                  \E a, b \in DOMAIN loc.population :
                      loc.parent1 = loc.population[a].route /\ loc.parent2 = loc.population[b].route)
    /\ [][(engine = "ga" /\ cfg.elite_size <= cfg.population_size /\ pc' # "panic") =>
            /\ (pc = "ga_cut" /\ pc' = "ga_fill") =>
                  /\ Len(loc'.next_population) = Len(loc.next_population) + 1
                  /\ SubSeq(loc'.next_population, 1, Len(loc.next_population)) = loc.next_population
                  /\ IsOffspringOf(loc'.next_population[Len(loc'.next_population)],
                                   loc.parent1, loc.parent2, loc.i1, loc.i2)
                  /\ loc'.population = loc.population
            /\ (pc = "ga_fill" /\ pc' \in {"ga_gen", "done"}) =>
                  /\ Len(loc'.population) = cfg.population_size
                  /\ SameMultiset(loc'.population, loc.next_population)
                  /\ \A k \in 1..cfg.elite_size :
                        Count(loc'.population, loc.population[k]) >= Count(SubSeq(loc.population, 1, cfg.elite_size), loc.population[k])]_vars

C23_Witness ==
    /\ engine = "ga" /\ pc = "ga_fill"
    /\ cfg.elite_size = 1 /\ loc.generation = 1
    /\ Len(loc.next_population) = cfg.population_size
    /\ loc.next_population[1] = loc.population[1]
    /\ loc.next_population[2].route # loc.population[1].route
    /\ loc.next_population[2].route # loc.population[2].route
    /\ loc.population[1].distance < loc.population[2].distance

-----------------------------------------------------------------------------
(* SA acceptance *)

\* C24: a neighbour that is not worse than the current route is always
\* accepted; the current route changes only by the acceptance of a neighbour;
\* the best route changes only when an accepted neighbour is strictly shorter
\* than it, and then it becomes that neighbour
C24_AcceptanceRule ==
    /\ []((engine = "sa" /\ pc = "sa_moves" /\ Len(tsp) >= 2 /\ loc.k < cfg.moves_per_temp) =>
            \A new_route \in sa_neighbors(loc.current_route, loc.temperature) :
                new_route.distance <= loc.current_route.distance =>
                    /\ sa_can_accept(loc.current_route.distance, new_route.distance, loc.temperature)
                    /\ ~sa_can_reject(loc.current_route.distance, new_route.distance))
    /\ [][(engine = "sa" /\ pc = "sa_moves" /\ pc' # "panic") =>
            /\ loc'.current_route # loc.current_route =>
                  /\ loc'.k = loc.k + 1
                  /\ loc'.current_route \in sa_neighbors(loc.current_route, loc.temperature)
                  /\ sa_can_accept(loc.current_route.distance, loc'.current_route.distance, loc.temperature)
                  /\ loc'.current_route.distance < best_route.distance => best_route' = loc'.current_route
            /\ best_route' # best_route =>
                  /\ loc'.k = loc.k + 1
                  /\ best_route' = loc'.current_route
                  /\ loc'.current_route \in sa_neighbors(loc.current_route, loc.temperature)
                  /\ best_route'.distance < best_route.distance]_vars

C24_Witness ==
    /\ engine = "sa" /\ pc = "sa_moves"
    /\ tsp = Kite4
    /\ loc.k >= 1 /\ loc.improved
    /\ best_route = loc.current_route
    /\ \A seed \in SeedRoutes : best_route.distance < seed.distance

-----------------------------------------------------------------------------
(* PSO termination *)

\* C25: optimize runs at most max_iterations iterations, goes on to another
\* iteration only while the number of iterations in a row without a strict
\* improvement of the global best fitness is at most 50, stops before
\* max_iterations only for that reason, and an improving iteration resets the
\* counter to 0
C25_StopsAfterFiftyStalled ==
    (engine = "pso" /\ pc \in {"pso_particles", "pso_final", "done"}) =>
        /\ loc.iteration <= cfg.max_iterations
        /\ pc = "pso_particles" => loc.stalled <= 50
        /\ (pc = "pso_final" /\ loc.iteration < cfg.max_iterations) => loc.stalled > 50
        /\ loc.stalled = 0 => loc.iterations_without_improvement = 0

-----------------------------------------------------------------------------
(* PSO bests *)

\* after the initial evaluation: every personal best fitness is the fitness of
\* the personal best position, the global best fitness is the fitness of the
\* global best position and is no larger than any personal best fitness
BestsConsistent ==
    /\ \A k \in DOMAIN loc.particles :
          /\ loc.particles[k].best_fitness = calculate_fitness(loc.particles[k].best_position, tsp)
          /\ loc.global_best_fitness <= loc.particles[k].best_fitness
    /\ loc.global_best_fitness = calculate_fitness(loc.global_best_position, tsp)

\* no step after the initial evaluation, the final local search included,
\* raises a personal best fitness or the global best fitness
BestsNeverIncrease ==
    [][(engine = "pso" /\ pc \in {"pso_particles", "pso_final"} /\ pc' # "panic") =>
         /\ \A k \in DOMAIN loc.particles :
               loc'.particles[k].best_fitness <= loc.particles[k].best_fitness
         /\ loc'.global_best_fitness <= loc.global_best_fitness]_vars

\* C26 (as stated, for every swarm): after the initial evaluation and after
\* every particle update the personal and global bests are consistent with
\* their positions and never increase, and the final local search does not
\* increase the returned fitness
C26_BestsConsistentAnySwarm ==
    /\ []((engine = "pso" /\ pc \in {"pso_particles", "pso_final", "done"}) => BestsConsistent)
    /\ BestsNeverIncrease

\* C26 (for a swarm of at least one particle): the same statement
C26_BestsConsistent ==
    /\ []((engine = "pso" /\ pc \in {"pso_particles", "pso_final", "done"}
           /\ cfg.num_particles >= 1) => BestsConsistent)
    /\ BestsNeverIncrease

C26_Witness ==
    /\ engine = "pso" /\ pc = "done"
    /\ cfg.num_particles >= 1
    /\ \E k \in DOMAIN loc.particles :
          /\ loc.particles[k].best_position # loc.particles[k].position
          /\ \A start \in 1..Len(tsp) :
                loc.particles[k].best_fitness < calculate_fitness(ParticleNew(tsp, start).position, tsp)
    /\ \A start \in 1..Len(tsp) :
          loc.global_best_fitness < calculate_fitness(ParticleNew(tsp, start).position, tsp)

-----------------------------------------------------------------------------
(* ACO pheromone matrix *)

DistinctCoordinates == \A i, j \in DOMAIN tsp : i # j => tsp[i] # tsp[j]

PheromoneSymmetric ==
    \A i, j \in DOMAIN loc.pheromone : loc.pheromone[i][j] = loc.pheromone[j][i]

\* C27 (as stated): after any number of ACO iterations with decay in (0, 1)
\* and q > 0 on pairwise distinct coordinates the pheromone matrix is
\* symmetric and every entry is strictly positive
C27_SymmetricPositive ==
    (engine = "aco" /\ pc \in {"aco_ants", "done"}
       /\ cfg.decay > 0 /\ cfg.decay < 100 /\ cfg.q > 0 /\ DistinctCoordinates) =>
        /\ PheromoneSymmetric
        /\ \A i, j \in DOMAIN loc.pheromone : loc.pheromone[i][j] > 0

\* C27 (amended): under the same conditions the matrix is symmetric and no
\* entry is negative
C27_SymmetricNonNegative ==
    (engine = "aco" /\ pc \in {"aco_ants", "done"}
       /\ cfg.decay > 0 /\ cfg.decay < 100 /\ cfg.q > 0 /\ DistinctCoordinates) =>
        /\ PheromoneSymmetric
        /\ \A i, j \in DOMAIN loc.pheromone : loc.pheromone[i][j] >= 0

C27_Witness ==
    /\ engine = "aco" /\ pc \in {"aco_ants", "done"} /\ loc.solutions = <<>>
    /\ cfg.decay > 0 /\ cfg.decay < 100 /\ DistinctCoordinates
    /\ Len(tsp) = 4 /\ loc.iteration = 2
    /\ \E i, j \in 1..4 : i # j /\ loc.pheromone[i][j] > PScale /\ loc.pheromone[j][i] > PScale
    /\ \E i, j \in 1..4 : i # j /\ loc.pheromone[i][j] < PScale /\ loc.pheromone[j][i] < PScale

-----------------------------------------------------------------------------
(* GA 2-opt edge test *)

\* the scan of apply_2opt with the reversal decided by the cyclic length of
\* the whole tour: the route it ends with, the number of reversals made, and
\* whether the edge test of every scanned pair was the change of that length
ScanByLength(route) ==
    LET n == Len(route)
        dm == distance_matrix(tsp)
        pairs == ScanPairs(n)
        RECURSIVE Go(_, _, _, _)
        Go(k, r, reversals, exact) ==
            IF k > Len(pairs) THEN [route |-> r, reversals |-> reversals, exact |-> exact]
            ELSE LET i == pairs[k][1]
                     j == pairs[k][2]
                     reversed == ReverseRange(r, i + 1, j)
                     before == CyclicLength(CoordsOf(tsp, r))
                     after == CyclicLength(CoordsOf(tsp, reversed))
                     current_distance == dm[r[i]][r[i + 1]] + dm[r[j]][r[(j % n) + 1]]
                     new_distance == dm[r[i]][r[j]] + dm[r[i + 1]][r[(j % n) + 1]]
                     same == new_distance - current_distance = after - before
                 IN IF after < before
                    THEN Go(k + 1, reversed, reversals + 1, exact /\ same)
                    ELSE Go(k + 1, r, reversals, exact /\ same)
    IN Go(1, route, 0, TRUE)

\* C28: in Chromosome::apply_2opt the edge test of every scanned pair is the
\* change of the cyclic length the reversal of route[i+1..=j] causes, so the
\* reversals made are exactly the strictly shortening ones, and the result is
\* true exactly when a reversal was made
C28_EdgeTestIsTrueDelta ==
    (engine = "fn" /\ ret.op = "ga_2opt") =>
        LET scan == ScanByLength(ret.in.route)
        IN /\ scan.exact
           /\ ret.out.route = scan.route
           /\ ret.improved = (scan.reversals > 0)
           /\ ret.out.distance = CyclicLength(CoordsOf(tsp, scan.route))
           /\ scan.reversals > 0 => ret.out.distance < ret.in.distance

C28_Witness ==
    /\ engine = "fn" /\ ret.op = "ga_2opt"
    /\ Len(tsp) = 5
    /\ ScanByLength(ret.in.route).reversals >= 2
    /\ ret.improved
    /\ ret.out.distance < ret.in.distance

====
